---- MODULE Spec2Model ----
(***************************************************************************)
(* The render stream engine of jgd (src/r-pkg/src): the page/op log and    *)
(* its delta-aware frame serializer (display_list.c), the device callbacks *)
(* that flush frames and capture snapshots (callbacks.c), and the resize / *)
(* replay state machine (device.c, poll_resize_impl), the metrics          *)
(* exchange with its cache (callbacks.c), and the line transport over a    *)
(* stream socket (transport.c).                                            *)
(*                                                                         *)
(* The engine is single threaded: every callback runs to completion, so    *)
(* one action is one whole handler.  The only thing that happens "while"   *)
(* a handler runs is the peer's bytes arriving on the socket; every read   *)
(* point of a handler therefore takes a flag saying whether the next line  *)
(* the peer sent has arrived by then.                                      *)
(*                                                                         *)
(* The host graphics engine (R) is the environment.  What the model keeps  *)
(* of it is its display list: item 0 is the recorded plot.new call, whose  *)
(* replay calls the device's newPage callback, and an item k > 0 is a      *)
(* recorded drawing call whose (re)play appends device op k between        *)
(* mode(1) and mode(0).  GEcreateSnapshot copies the display list and      *)
(* GEplaySnapshot installs a copy and replays it.                          *)
(***************************************************************************)
EXTENDS Integers, Sequences, FiniteSets, TLC

VARIABLES
    st,         \* jgd_state_t (device.h), without the page
    page,       \* jgd_page_t  (display_list.h)
    dl,         \* the host's display list of the current plot
    inq,        \* lines the peer has sent and the producer has not read yet
    mc,         \* the metrics statics of callbacks.c: id counter and cache
    out,        \* what the last handler did: messages sent, lines read, ...
    act,        \* the last handler that ran
    open,       \* FALSE once cb_close has run
    peer,       \* the pages a peer rebuilds from the frames
    live,       \* bookkeeping of the frames sent for the live page, and
                \* of the snapshots added to the history
    ser,        \* bookkeeping of the serializer calls on the page
    budget,     \* what is left of the bounds of a run
    tp,         \* jgd_transport_t (transport.c) and its socket, in bytes
    proc        \* the R process: its pid, the device counter of C_jgd,
                \* the session ids given to devices so far, and what the
                \* metrics statics would be had only a second device of
                \* the process asked for metrics (alone)

vars ==
    <<st, page, dl, inq, mc, out, act, open, peer, live, ser, budget, tp,
      proc>>

(***************************************************************************)
(* Bounds of the model.                                                    *)
(***************************************************************************)
MaxOps == 3         \* drawing calls of the host in one run
MaxPages == 2       \* plot.new calls of the host in one run
MaxMsgs == 2        \* lines the peer sends in one run
MaxHold == 1        \* nesting of dev.hold() the host uses
MaxReqs == 1        \* metrics queries of the host in one run
MaxQueries == 2     \* metrics queries of the host in a run of queries
MaxBytes == 6       \* bytes the peer writes on one connection
MaxSends == 2       \* transport_send calls in one run
MaxDevices == 3     \* devices built in one run, over all processes
\* sizeof(t->readbuf) and the size of the callers' line buffers (char
\* buf[1024]), scaled down so that full buffers are reachable; the callers'
\* buffer is the smaller of the two
READBUF_SIZE == 4
CallerBuf == 3
\* JGD_MAX_SNAPSHOTS is 50 in device.h; the model keeps the code's eviction
\* rule and scales the capacity down so that a full history is reachable.
JGD_MAX_SNAPSHOTS == 2

(***************************************************************************)
(* Device geometry.  st->width/height are inches, the page and the wire    *)
(* carry pixels.  Inches are kept as an exact fraction <<num, den>>; with  *)
(* the default dpi of 96 the double arithmetic of the code is exact for    *)
(* every integral pixel size the model uses ((w / 96.0) * 96.0 == w).      *)
(***************************************************************************)
Dpi == 96
DefaultInches == 7

Inches(px) == <<px, Dpi>>
Px(inches) == (inches[1] * Dpi) \div inches[2]

\* resize targets the peer asks for, <<width, height>> in pixels
Targets == {<<800, 600>>, <<400, 300>>}

(***************************************************************************)
(* Inbound messages (one line each).                                       *)
(***************************************************************************)
NoIndex == 0 - 1

\* {"type":"resize","width":w,"height":h} and, with hasIndex, "plotIndex":pi
ResizeMsg(w, h, hasIndex, pi) ==
    [type |-> "resize", width |-> w, height |-> h,
     hasIndex |-> hasIndex, plotIndex |-> pi, id |-> 0]

\* {"type":"metrics_response","id":i,"width":v}
MetricsMsg(i, v) ==
    [type |-> "metrics_response", width |-> v, height |-> 0,
     hasIndex |-> FALSE, plotIndex |-> 0, id |-> i]

\* {"type":"metrics_response","id":i,"ascent":a,"descent":d,"width":v}
MetricInfoMsg(i, a, d, v) ==
    [type |-> "metrics_response", width |-> v, height |-> 0,
     hasIndex |-> FALSE, plotIndex |-> 0, id |-> i,
     ascent |-> a, descent |-> d]

\* a line that cJSON_Parse rejects, and a JSON object of another type
Garbage == [type |-> "unparseable"]
Ping == [type |-> "ping"]

\* not a line: the end of the stream of a peer that closed its end
Hangup == [type |-> "eof"]

\* cJSON_IsNumber(item) ? item->valuedouble : 0.0 for the member f of m
Num(m, f) == IF f \in DOMAIN m THEN m[f] ELSE 0

CurrentResizes == {ResizeMsg(t[1], t[2], FALSE, 0) : t \in Targets}
HistoricalResizes == {ResizeMsg(400, 300, TRUE, 0)}

(***************************************************************************)
(* display_list.c: the page and the frame serializer.  ops is the cJSON    *)
(* array, ops_tail and last_flush_tail are positions in it (0 is NULL).    *)
(***************************************************************************)
page_init(width, height) ==
    [ops |-> <<>>, ops_tail |-> 0, last_flush_tail |-> 0, op_count |-> 0,
     width |-> width, height |-> height]

page_free(p) ==
    [p EXCEPT !.ops = <<>>, !.ops_tail = 0, !.last_flush_tail = 0]

\* an append that puts the op in front of the log
page_add_op_AtFront(p, op) ==
    [p EXCEPT !.ops = <<op>> \o @, !.ops_tail = Len(p.ops) + 1,
              !.op_count = @ + 1]

page_add_op(p, op) ==
    [p EXCEPT !.ops = Append(@, op), !.ops_tail = Len(p.ops) + 1,
              !.op_count = @ + 1]

\* a serializer that starts a delta at the flush position itself
FrameStart_AtTail(p, incremental) ==
    IF incremental /\ p.last_flush_tail # 0 THEN p.last_flush_tail ELSE 1

\* the ops array page_serialize_frame builds
FrameStart(p, incremental) ==
    IF incremental /\ p.last_flush_tail # 0 THEN p.last_flush_tail + 1 ELSE 1

FrameOps(p, incremental) ==
    SubSeq(p.ops, FrameStart(p, incremental), Len(p.ops))

\* the JSON text page_serialize_frame returns
page_serialize_frame(p, session_id, incremental, new_page) ==
    [type |-> "frame", incremental |-> incremental,
     sessionId |-> session_id,
     newPage |-> (new_page /\ ~incremental),
     width |-> p.width, height |-> p.height,
     ops |-> FrameOps(p, incremental)]

\* a serializer that never moves the flush position
page_after_serialize_Stale(p) == p

\* the page after page_serialize_frame: the flush position moves to the tail
page_after_serialize(p) ==
    [p EXCEPT !.last_flush_tail = p.ops_tail]

(***************************************************************************)
(* The world a handler runs in: w.st, w.page, w.dl, w.inq, w.mc and, in    *)
(* w.out, what the handler has done so far: the messages it sent (sent),   *)
(* how many of them while st.replaying was set (inreplay), the lines it    *)
(* read (read), the op log of the page when it last sent a frame (log),    *)
(* the branch poll_resize_impl took (path) with the size and plot index it *)
(* applied (target, index), and the value a metrics callback returned      *)
(* (ret) for the key it was asked about (arg).                             *)
(***************************************************************************)

\* the peer closed its end: the end of the stream follows its last line
PeerGone(q) == q # <<>> /\ q[Len(q)].type = "eof"

\* transport.c, at the level of whole lines.  send() to a peer that closed
\* fails, and so does recv() at the end of the stream, which poll() reports
\* as readable; both failures clear t->connected.
transport_send(w, msg) ==
    IF ~w.st.connected THEN w
    ELSE IF PeerGone(w.inq) THEN [w EXCEPT !.st.connected = FALSE]
    ELSE [w EXCEPT !.out.sent = Append(@, msg),
                   !.out.inreplay = IF w.st.replaying THEN @ + 1 ELSE @]

transport_has_data(w, arrived) ==
    w.st.connected /\ arrived /\ w.inq # <<>>

\* the world after transport_recv_line returned Head(w.inq), or failed at
\* the end of the stream
transport_recv_line(w) ==
    IF Head(w.inq).type = "eof" THEN [w EXCEPT !.st.connected = FALSE]
    ELSE [w EXCEPT !.inq = Tail(@), !.out.read = Append(@, Head(w.inq))]

\* device.c, jgd_try_parse_resize: its return value, and the plot_index it
\* stores (only when the message is a resize)
jgd_try_parse_resize(m) ==
    m.type = "resize" /\ m.width > 0 /\ m.height > 0

ParsedPlotIndex(m, old) ==
    IF m.type = "resize"
    THEN (IF m.hasIndex THEN m.plotIndex ELSE NoIndex)
    ELSE old

\* a flush that never clears st->new_page
jgd_flush_frame_KeepFlag(w, incremental) ==
    LET np == ~incremental /\ w.st.new_page /\ ~w.st.replaying
        w1 == transport_send(w, page_serialize_frame(w.page, w.st.session_id,
                                                     incremental, np))
    IN  [w1 EXCEPT !.page = page_after_serialize(@),
                   !.out.log = w.page.ops]

\* callbacks.c
jgd_flush_frame(w, incremental) ==
    LET np == ~incremental /\ w.st.new_page /\ ~w.st.replaying
        w1 == transport_send(w, page_serialize_frame(w.page, w.st.session_id,
                                                     incremental, np))
    IN  [w1 EXCEPT !.page = page_after_serialize(@),
                   !.out.log = w.page.ops,
                   !.st.new_page = IF np THEN FALSE ELSE @]

check_incoming(w, arrived) ==
    IF w.st.has_buffered_resize THEN w
    ELSE IF ~transport_has_data(w, arrived) THEN w
    ELSE LET m == Head(w.inq)
             w1 == transport_recv_line(w)
         IN  IF ~jgd_try_parse_resize(m) THEN w1
             ELSE IF ParsedPlotIndex(m, NoIndex) >= 0
                  THEN [w1 EXCEPT !.st.has_buffered_resize = TRUE,
                                  !.st.buffered_w = m.width,
                                  !.st.buffered_h = m.height,
                                  !.st.buffered_plot_index = m.plotIndex]
                  ELSE [w1 EXCEPT !.st.pending_w = m.width,
                                  !.st.pending_h = m.height]

\* an apply that leaves the pending size set
apply_pending_resize_KeepPending(w) ==
    IF w.st.pending_w > 0 /\ w.st.pending_h > 0
    THEN [w EXCEPT !.st.width = Inches(w.st.pending_w),
                   !.st.height = Inches(w.st.pending_h)]
    ELSE w

apply_pending_resize(w) ==
    IF w.st.pending_w > 0 /\ w.st.pending_h > 0
    THEN [w EXCEPT !.st.width = Inches(w.st.pending_w),
                   !.st.height = Inches(w.st.pending_h),
                   !.st.pending_w = 0,
                   !.st.pending_h = 0]
    ELSE w

\* a store that, when full, overwrites its newest entry
StoreSnapshot_KeepOldest(s) ==
    IF s.snapshot_count >= JGD_MAX_SNAPSHOTS
    THEN [s EXCEPT !.snapshot_store[JGD_MAX_SNAPSHOTS - 1] = s.last_snapshot,
                   !.last_snapshot = <<>>]
    ELSE [s EXCEPT !.snapshot_store[s.snapshot_count] = s.last_snapshot,
                   !.snapshot_count = @ + 1,
                   !.last_snapshot = <<>>]

\* cb_newPage, lines 44-62: last_snapshot moves into the snapshot store
StoreSnapshot(s) ==
    IF s.snapshot_count >= JGD_MAX_SNAPSHOTS
    THEN [s EXCEPT !.snapshot_store =
                       [i \in 0..(JGD_MAX_SNAPSHOTS - 1) |->
                           IF i < JGD_MAX_SNAPSHOTS - 1
                           THEN s.snapshot_store[i + 1]
                           ELSE s.last_snapshot],
                   !.last_snapshot = <<>>]
    ELSE [s EXCEPT !.snapshot_store[s.snapshot_count] = s.last_snapshot,
                   !.snapshot_count = @ + 1,
                   !.last_snapshot = <<>>]

cb_newPage(w, arrived) ==
    LET w1 == IF /\ w.st.page_count > 0
                 /\ w.page.op_count > w.st.last_flushed_ops
                 /\ ~w.st.replaying
              THEN jgd_flush_frame(w, FALSE) ELSE w
        w2 == IF /\ w1.st.page_count > 0
                 /\ ~w1.st.replaying
                 /\ w1.st.last_snapshot # <<>>
              THEN [w1 EXCEPT !.st = StoreSnapshot(@)] ELSE w1
        w3 == IF w2.st.page_count > 0
              THEN [w2 EXCEPT !.page = page_free(@)] ELSE w2
        w4 == apply_pending_resize(check_incoming(w3, arrived))
    IN  [w4 EXCEPT !.page = page_init(Px(w4.st.width), Px(w4.st.height)),
                   !.st.page_count = @ + 1,
                   !.st.last_flushed_ops = 0,
                   !.st.new_page = TRUE]

\* GEcreateSnapshot: a copy of the display list; last_snapshot is <<>> for
\* R_NilValue and <<snapshot>> otherwise
GEcreateSnapshot(w) == w.dl

CaptureSnapshot(w) ==
    [w EXCEPT !.st.last_snapshot = <<GEcreateSnapshot(w)>>]

\* a cb_mode that does not look at st->replaying
cb_mode_NoReplayTest(w, mode) ==
    IF mode = 1 THEN [w EXCEPT !.st.drawing = TRUE]
    ELSE IF mode # 0 THEN w
    ELSE LET w1 == [w EXCEPT !.st.drawing = FALSE]
             incr == w.st.last_flushed_ops > 0
             w2 == [jgd_flush_frame(w1, incr) EXCEPT
                        !.st.last_flushed_ops = w.page.op_count]
         IN  IF w.st.hold_level = 0 /\ w.page.op_count > w.st.last_flushed_ops
             THEN IF incr THEN w2 ELSE CaptureSnapshot(w2)
             ELSE w1

cb_mode(w, mode) ==
    IF w.st.replaying THEN w
    ELSE IF mode = 1 THEN [w EXCEPT !.st.drawing = TRUE]
    ELSE IF mode # 0 THEN w
    ELSE LET w1 == [w EXCEPT !.st.drawing = FALSE]
             incr == w.st.last_flushed_ops > 0
             w2 == [jgd_flush_frame(w1, incr) EXCEPT
                        !.st.last_flushed_ops = w.page.op_count]
         IN  IF w.st.hold_level = 0 /\ w.page.op_count > w.st.last_flushed_ops
             THEN IF incr THEN w2 ELSE CaptureSnapshot(w2)
             ELSE w1

\* cb_holdflush; out.ret is the value it returns
cb_holdflush(w, level) ==
    IF w.st.replaying THEN [w EXCEPT !.out.ret = w.st.hold_level]
    ELSE LET old == w.st.hold_level
             new_level == IF old + level < 0 THEN 0 ELSE old + level
             w1 == [w EXCEPT !.st.hold_level = new_level, !.out.ret = old]
         IN  IF old > 0 /\ new_level = 0
                /\ w.page.op_count > w.st.last_flushed_ops
             THEN CaptureSnapshot(
                      [jgd_flush_frame(w1, FALSE) EXCEPT
                           !.st.last_flushed_ops = w.page.op_count])
             ELSE w1

\* a drawing callback (cb_line, cb_rect, ...): one op appended to the page
cb_draw(w, op) == [w EXCEPT !.page = page_add_op(@, op)]

(***************************************************************************)
(* The host's replay.  GEplayDisplayList calls the callbacks the recorded  *)
(* calls make: newPage for plot.new, and mode(1), the drawing callback and *)
(* mode(0) for a drawing call.  Only plot.new reaches a read point.        *)
(***************************************************************************)
PlayItem(w, item, arrived) ==
    IF item = 0 THEN cb_newPage(w, arrived)
    ELSE cb_mode(cb_draw(cb_mode(w, 1), item), 0)

RECURSIVE PlayItems(_, _, _)
PlayItems(w, items, arrived) ==
    IF items = <<>> THEN w
    ELSE PlayItems(PlayItem(w, Head(items), arrived), Tail(items), arrived)

GEplayDisplayList(w, arrived) == PlayItems(w, w.dl, arrived)

GEplaySnapshot(w, snap, arrived) ==
    GEplayDisplayList([w EXCEPT !.dl = snap], arrived)

(***************************************************************************)
(* device.c, poll_resize_impl.  a1 is the read point of the function       *)
(* itself, a2 and a3 those of the newPage callbacks of its replays.        *)
(***************************************************************************)
\* lines 250-264: drain the buffer, or read one line
PollIntake(w, a1) ==
    IF w.st.has_buffered_resize
    THEN [w EXCEPT !.st.pending_w = w.st.buffered_w,
                   !.st.pending_h = w.st.buffered_h,
                   !.st.pending_plot_index = w.st.buffered_plot_index,
                   !.st.has_buffered_resize = FALSE]
    ELSE IF transport_has_data(w, a1)
    THEN LET m == Head(w.inq)
             ok == jgd_try_parse_resize(m)
             plot_index == ParsedPlotIndex(m, NoIndex)
         IN  [transport_recv_line(w) EXCEPT
                 !.st.pending_w = IF ok THEN m.width ELSE @,
                 !.st.pending_h = IF ok THEN m.height ELSE @,
                 !.st.pending_plot_index =
                     IF plot_index >= 0 THEN plot_index ELSE @]
    ELSE w

\* lines 269-280: the pending size becomes the device size
PollApply(w) ==
    [w EXCEPT !.st.width = Inches(w.st.pending_w),
              !.st.height = Inches(w.st.pending_h),
              !.st.pending_w = 0,
              !.st.pending_h = 0,
              !.st.pending_plot_index = NoIndex,
              !.out.target = <<w.st.pending_w, w.st.pending_h>>,
              !.out.index = w.st.pending_plot_index]

\* lines 294-316: the snapshot is replayed and flushed, the live plot restored
PollHistorical(w, pi, a2, a3) ==
    LET snap == w.st.snapshot_store[pi][1]
        current == GEcreateSnapshot(w)
        r1 == GEplaySnapshot([w EXCEPT !.st.replaying = TRUE,
                                       !.st.hold_level = 100], snap, a2)
        r2 == [r1 EXCEPT !.st.hold_level = 0, !.st.replaying = FALSE]
        r3 == IF r2.page.op_count > r2.st.last_flushed_ops
              THEN [jgd_flush_frame(r2, FALSE) EXCEPT
                        !.st.last_flushed_ops = r2.page.op_count]
              ELSE r2
        r4 == GEplaySnapshot([r3 EXCEPT !.st.replaying = TRUE,
                                        !.st.hold_level = 100], current, a3)
    IN  [r4 EXCEPT !.st.hold_level = 0,
                   !.st.replaying = FALSE,
                   !.st.last_flushed_ops = r4.page.op_count,
                   !.out.path = "historical"]

\* lines 331-355: the display list is replayed and flushed
PollCurrent(w, a2) ==
    LET r1 == GEplayDisplayList([w EXCEPT !.st.replaying = TRUE], a2)
        r2 == [r1 EXCEPT !.st.replaying = FALSE, !.out.path = "current"]
    IN  IF r2.page.op_count > r2.st.last_flushed_ops
        THEN [jgd_flush_frame(r2, FALSE) EXCEPT
                  !.st.last_flushed_ops = r2.page.op_count]
        ELSE r2

poll_resize_impl(w, a1, a2, a3) ==
    LET w1 == PollIntake(w, a1)
        pi == w1.st.pending_plot_index
        w2 == PollApply(w1)
    IN  IF w1.st.pending_w <= 0 \/ w1.st.pending_h <= 0
        THEN [w1 EXCEPT !.out.path = "none"]
        ELSE IF pi >= 0 /\ pi < w2.st.snapshot_count
             THEN PollHistorical(w2, pi, a2, a3)
             ELSE PollCurrent(w2, a2)

\* a poll hook that does not look at st->replaying and st->drawing
C_jgd_poll_resize_NoBusyTest(w, a1, a2, a3) ==
    poll_resize_impl(w, a1, a2, a3)

\* device.c, lines 362-371: the poll hook R code calls
C_jgd_poll_resize(w, a1, a2, a3) ==
    IF w.st.replaying \/ w.st.drawing THEN w
    ELSE poll_resize_impl(w, a1, a2, a3)

\* device.c, lines 420-433: the poll hook of the input handler
jgd_input_handler_cb(w, a1, a2, a3) ==
    IF w.st.replaying \/ w.st.drawing THEN w
    ELSE IF ~w.st.connected THEN w
    ELSE poll_resize_impl(w, a1, a2, a3)

(***************************************************************************)
(* callbacks.c, the metrics exchange.  A 32-bit unsigned value is kept as  *)
(* its two 16-bit halves <<hi, lo>>.  A metrics key is what mcache_hash    *)
(* reads: the bytes of the string, gc->fontface, the low 32 bits of the    *)
(* double cex * ps (what memcpy copies into sz_bits on a little-endian     *)
(* machine) and the bytes of gc->fontfamily.  Widths are in 1/100 pixel.   *)
(***************************************************************************)
MCACHE_SIZE == 512
Half == 65536

RECURSIVE Xor(_, _)
Xor(a, b) ==
    IF a = 0 THEN b
    ELSE IF b = 0 THEN a
    ELSE (((a % 2) + (b % 2)) % 2) + 2 * Xor(a \div 2, b \div 2)

\* ((h << 5) + h) ^ c on unsigned int
HashStep(h, c) ==
    LET lo33 == h[2] * 33
        hi33 == h[1] * 33 + (lo33 \div Half)
    IN  <<Xor(hi33 % Half, c[1]), Xor(lo33 % Half, c[2])>>

RECURSIVE HashBytes(_, _)
HashBytes(h, bytes) ==
    IF bytes = <<>> THEN h
    ELSE HashBytes(HashStep(h, <<0, Head(bytes)>>), Tail(bytes))

mcache_hash(key) ==
    LET h1 == HashBytes(<<0, 5381>>, key.str)
        h2 == HashStep(h1, <<0, key.face>>)
        h3 == HashStep(h2, key.sz_bits)
    IN  HashBytes(h3, key.family)

\* hash % MCACHE_SIZE (MCACHE_SIZE divides 65536)
mcache_slot(hash) == hash[2] % MCACHE_SIZE

\* a lookup that trusts whatever occupies the slot
mcache_lookup_SlotOnly(mcache, hash) ==
    {e \in mcache : e.slot = mcache_slot(hash)}

\* mcache is the set of its occupied entries, at most one per slot; the
\* result is the set holding the entry found, or {} for NULL
mcache_lookup(mcache, hash) ==
    {e \in mcache : e.slot = mcache_slot(hash) /\ e.hash = hash}

mcache_store(mcache, hash, v1, v2, v3) ==
    {e \in mcache : e.slot # mcache_slot(hash)}
        \cup {[slot |-> mcache_slot(hash), hash |-> hash,
               v1 |-> v1, v2 |-> v2, v3 |-> v3]}

\* metrics.c: nchars * avg_char_width * font size at 96 dpi, for a
\* 12 pt font of the default (sans) family: 0.53, or 0.56 for a bold face
metrics_str_width(key) ==
    Len(key.str) * (IF key.face = 2 \/ key.face = 4 THEN 56 ELSE 53)
        * ((12 * Dpi) \div 72)

\* a wait loop in which a pending size, once set, is not overwritten
RECURSIVE recv_metrics_response_KeepFirst(_, _, _)
recv_metrics_response_KeepFirst(w, attempts, narr) ==
    IF attempts >= 5 \/ ~w.st.connected \/ narr = 0 \/ w.inq = <<>>
    THEN [w |-> w, found |-> FALSE, buf |-> <<>>]
    ELSE LET m == Head(w.inq)
             w1 == transport_recv_line(w)
         IN  IF m.type = "metrics_response"
             THEN [w |-> w1, found |-> TRUE, buf |-> <<m>>]
             ELSE IF m.type = "resize" /\ m.width > 0 /\ m.height > 0
             THEN IF m.hasIndex
                  THEN recv_metrics_response_KeepFirst(
                           [w1 EXCEPT !.st.has_buffered_resize = TRUE,
                                      !.st.buffered_w = m.width,
                                      !.st.buffered_h = m.height,
                                      !.st.buffered_plot_index = m.plotIndex],
                           attempts + 1, narr - 1)
                  ELSE recv_metrics_response_KeepFirst(
                           [w1 EXCEPT
                               !.st.pending_w = IF @ > 0 THEN @ ELSE m.width,
                               !.st.pending_h = IF @ > 0 THEN @ ELSE m.height],
                           attempts + 1, narr - 1)
             ELSE recv_metrics_response_KeepFirst(w1, attempts + 1, narr - 1)

\* recv_metrics_response: narr is the number of lines that arrive before a
\* read times out.  The result is the world, whether a metrics_response was
\* found, and the line left in buf.
RECURSIVE recv_metrics_response(_, _, _)
recv_metrics_response(w, attempts, narr) ==
    IF attempts >= 5 \/ ~w.st.connected \/ narr = 0 \/ w.inq = <<>>
    THEN [w |-> w, found |-> FALSE, buf |-> <<>>]
    ELSE LET m == Head(w.inq)
             w1 == transport_recv_line(w)
         IN  IF m.type = "metrics_response"
             THEN [w |-> w1, found |-> TRUE, buf |-> <<m>>]
             ELSE IF m.type = "resize" /\ m.width > 0 /\ m.height > 0
             THEN IF m.hasIndex
                  THEN recv_metrics_response(
                           [w1 EXCEPT !.st.has_buffered_resize = TRUE,
                                      !.st.buffered_w = m.width,
                                      !.st.buffered_h = m.height,
                                      !.st.buffered_plot_index = m.plotIndex],
                           attempts + 1, narr - 1)
                  ELSE recv_metrics_response(
                           [w1 EXCEPT !.st.pending_w = m.width,
                                      !.st.pending_h = m.height],
                           attempts + 1, narr - 1)
             ELSE recv_metrics_response(w1, attempts + 1, narr - 1)

\* a strWidth that also stores the local approximation in the cache
cb_strWidth_CacheFallback(w, key, narr) ==
    LET h == mcache_hash(key)
        cached == mcache_lookup(w.mc.mcache, h)
        id == w.mc.metrics_id_counter + 1
        req == [type |-> "metrics_request", id |-> id, kind |-> "strWidth",
                str |-> key.str]
        w1 == transport_send([w EXCEPT !.mc.metrics_id_counter = id], req)
        r == recv_metrics_response(w1, 0, narr)
        width == Num(r.buf[1], "width")
    IN  IF ~w.st.connected
        THEN [w EXCEPT !.out.ret = metrics_str_width(key)]
        ELSE IF cached # {}
        THEN [w EXCEPT !.out.ret = (CHOOSE e \in cached : TRUE).v1]
        ELSE IF r.found /\ width > 0
        THEN [r.w EXCEPT !.mc.mcache = mcache_store(@, h, width, 0, 0),
                         !.out.ret = width]
        ELSE [r.w EXCEPT
                 !.mc.mcache = mcache_store(@, h, metrics_str_width(key), 0, 0),
                 !.out.ret = metrics_str_width(key)]

\* a strWidth that does not test whether the transport is connected
cb_strWidth_NoOfflineTest(w, key, narr) ==
    LET h == mcache_hash(key)
        cached == mcache_lookup(w.mc.mcache, h)
        id == w.mc.metrics_id_counter + 1
        req == [type |-> "metrics_request", id |-> id, kind |-> "strWidth",
                str |-> key.str]
        w1 == transport_send([w EXCEPT !.mc.metrics_id_counter = id], req)
        r == recv_metrics_response(w1, 0, narr)
        width == Num(r.buf[1], "width")
    IN  IF cached # {}
        THEN [w EXCEPT !.out.ret = (CHOOSE e \in cached : TRUE).v1]
        ELSE IF r.found /\ width > 0
        THEN [r.w EXCEPT !.mc.mcache = mcache_store(@, h, width, 0, 0),
                         !.out.ret = width]
        ELSE [r.w EXCEPT !.out.ret = metrics_str_width(key)]

cb_strWidth(w, key, narr) ==
    LET h == mcache_hash(key)
        cached == mcache_lookup(w.mc.mcache, h)
        id == w.mc.metrics_id_counter + 1
        req == [type |-> "metrics_request", id |-> id, kind |-> "strWidth",
                str |-> key.str]
        w1 == transport_send([w EXCEPT !.mc.metrics_id_counter = id], req)
        r == recv_metrics_response(w1, 0, narr)
        width == Num(r.buf[1], "width")
    IN  IF ~w.st.connected
        THEN [w EXCEPT !.out.ret = metrics_str_width(key)]
        ELSE IF cached # {}
        THEN [w EXCEPT !.out.ret = (CHOOSE e \in cached : TRUE).v1]
        ELSE IF r.found /\ width > 0
        THEN [r.w EXCEPT !.mc.mcache = mcache_store(@, h, width, 0, 0),
                         !.out.ret = width]
        ELSE [r.w EXCEPT !.out.ret = metrics_str_width(key)]

\* metrics.c, metrics_char_info for a 12 pt font of the default family:
\* <<ascent, descent, width>>, the width of a space a quarter of the size
metrics_char_info(c, gc) ==
    LET sz == (12 * Dpi) \div 72
    IN  <<75 * sz, 25 * sz,
          IF c = 32 THEN 25 * sz
          ELSE (IF gc.face = 2 \/ gc.face = 4 THEN 56 ELSE 53) * sz>>

\* the bytes snprintf writes for %d of a natural number
RECURSIVE Decimal(_)
Decimal(n) ==
    IF n < 10 THEN <<48 + n>> ELSE Append(Decimal(n \div 10), 48 + (n % 10))

\* the cache key of the character c: the string "c<code>" under the font
CharKey(c, gc) ==
    [str |-> <<99>> \o Decimal(IF c < 0 THEN 0 - c ELSE c),
     face |-> gc.face, sz_bits |-> gc.sz_bits, family |-> gc.family]

\* cb_metricInfo: the result is <<ascent, descent, width>>
cb_metricInfo(w, c, gc, narr) ==
    LET cc == IF c < 0 THEN 0 - c ELSE c
        h == mcache_hash(CharKey(c, gc))
        cached == mcache_lookup(w.mc.mcache, h)
        id == w.mc.metrics_id_counter + 1
        req == [type |-> "metrics_request", id |-> id, kind |-> "metricInfo",
                c |-> cc]
        w1 == transport_send([w EXCEPT !.mc.metrics_id_counter = id], req)
        r == recv_metrics_response(w1, 0, narr)
        a == Num(r.buf[1], "ascent")
        d == Num(r.buf[1], "descent")
        ww == Num(r.buf[1], "width")
    IN  IF ~w.st.connected
        THEN [w EXCEPT !.out.ret = metrics_char_info(c, gc)]
        ELSE IF cached # {}
        THEN LET e == CHOOSE e \in cached : TRUE
             IN  [w EXCEPT !.out.ret = <<e.v1, e.v2, e.v3>>]
        ELSE IF r.found /\ (a > 0 \/ d > 0 \/ ww > 0)
        THEN [r.w EXCEPT !.mc.mcache = mcache_store(@, h, a, d, ww),
                         !.out.ret = <<a, d, ww>>]
        ELSE [r.w EXCEPT !.out.ret = metrics_char_info(c, gc)]

(***************************************************************************)
(* transport.c at the level of bytes (the POSIX build: a blocking stream   *)
(* socket).  tp.readbuf is t->readbuf[0 .. readbuf_len), tp.sock the bytes *)
(* the peer wrote that no recv() has taken yet, tp.eof says that the peer  *)
(* closed its end, tp.wire is what send() accepted.  transport_recv_line   *)
(* can block in recv(), so it is split at that call: tp.pc is "recv" while *)
(* a call sits there.  tp.n and tp.buf are the value and the line the last *)
(* call returned, tp.arg the payload of the last send (for a reconnect,    *)
(* what it met at each attempt).  tp.socket_path is t->socket_path, 0 for  *)
(* the empty string; tp.dials and tp.discoveries count the connect() and   *)
(* discover_socket_path calls of the last connect or reconnect.  Two       *)
(* observers:                                                              *)
(* tp.stream is all the peer wrote on this connection, tp.got the lines    *)
(* that transport_recv_line returned on it.                                *)
(***************************************************************************)
NL == 10

\* the attempts of transport_reconnect
ReconnectAttempts == 3

Min(a, b) == IF a < b THEN a ELSE b

transport_init ==
    [connected |-> FALSE, readbuf |-> <<>>, sock |-> <<>>, eof |-> FALSE,
     wire |-> <<>>, pc |-> "idle", caller |-> "none", attempts |-> 0,
     bufsize |-> 0, n |-> 0, buf |-> <<>>, arg |-> <<>>, found |-> FALSE,
     stream |-> <<>>, got |-> <<>>, sends |-> 0,
     socket_path |-> 0, dials |-> 0, discoveries |-> 0]

\* memchr(bytes, '\n', len): the position of the first newline, 0 for NULL
NewlineAt(bytes) ==
    IF \E i \in 1..Len(bytes) : bytes[i] = NL
    THEN CHOOSE i \in 1..Len(bytes) :
             bytes[i] = NL /\ \A j \in 1..(i - 1) : bytes[j] # NL
    ELSE 0

\* an extraction that empties the read buffer
readbuf_extract_line_DropRest(t, bufsize) ==
    LET nl == NewlineAt(t.readbuf)
        linelen == nl - 1
        copylen == IF linelen < bufsize - 1 THEN linelen ELSE bufsize - 1
    IN  IF bufsize = 0 \/ nl = 0 THEN [t EXCEPT !.n = 0 - 1]
        ELSE [t EXCEPT !.n = copylen,
                       !.buf = SubSeq(t.readbuf, 1, copylen),
                       !.readbuf = <<>>]

readbuf_extract_line(t, bufsize) ==
    LET nl == NewlineAt(t.readbuf)
        linelen == nl - 1
        copylen == IF linelen < bufsize - 1 THEN linelen ELSE bufsize - 1
    IN  IF bufsize = 0 \/ nl = 0 THEN [t EXCEPT !.n = 0 - 1]
        ELSE [t EXCEPT !.n = copylen,
                       !.buf = SubSeq(t.readbuf, 1, copylen),
                       !.readbuf = SubSeq(t.readbuf, nl + 1, Len(t.readbuf))]

\* transport_recv_line returns t.n (and the line t.buf when n >= 0)
Return(t) ==
    [t EXCEPT !.pc = "idle",
              !.got = IF t.n >= 0 THEN Append(@, t.buf) ELSE @]

\* transport_recv_line up to its first recv(): the fast path, then poll(),
\* which gives up when no byte and no hangup is there within the timeout
transport_recv_line_call(t, bufsize) ==
    LET e == readbuf_extract_line(t, bufsize)
    IN  IF ~t.connected THEN Return([t EXCEPT !.n = 0 - 1])
        ELSE IF e.n >= 0 THEN Return(e)
        ELSE IF t.sock = <<>> /\ ~t.eof THEN Return([t EXCEPT !.n = 0 - 1])
        ELSE [t EXCEPT !.pc = "recv", !.bufsize = bufsize]

\* one turn of the bulk-read loop, in which recv() returned r
transport_recv_line_read(t, r) ==
    LET space == READBUF_SIZE - Len(t.readbuf)
        t1 == [t EXCEPT !.readbuf = @ \o SubSeq(t.sock, 1, r),
                        !.sock = SubSeq(@, r + 1, Len(@))]
        e == readbuf_extract_line(t1, t.bufsize)
    IN  IF space = 0
        THEN Return([t EXCEPT !.readbuf = <<>>, !.connected = FALSE,
                              !.n = 0 - 1])
        ELSE IF r <= 0
        THEN Return([t EXCEPT !.connected = FALSE, !.n = 0 - 1])
        ELSE IF e.n >= 0 THEN Return(e)
        ELSE e

\* what recv() can return: any part of what the socket holds that fits,
\* 0 at the end of the stream; with nothing to deliver it blocks
RecvResults(t) ==
    IF READBUF_SIZE - Len(t.readbuf) = 0 THEN {0}
    ELSE IF t.sock # <<>>
    THEN 1..Min(READBUF_SIZE - Len(t.readbuf), Len(t.sock))
    ELSE IF t.eof THEN {0}
    ELSE {}

transport_has_data_poll(t) ==
    t.connected /\ (NewlineAt(t.readbuf) # 0 \/ t.sock # <<>> \/ t.eof)

\* the send loop of transport_send; script lists what the send() calls
\* return (0 stands for an error), a call beyond the script takes all
RECURSIVE transport_send_loop(_, _, _, _)
transport_send_loop(t, data, sent, script) ==
    LET rest == IF script = <<>> THEN <<>> ELSE Tail(script)
        n == IF script = <<>> THEN Len(data) - sent
             ELSE Min(Head(script), Len(data) - sent)
        nl == IF script = <<>> THEN 1 ELSE Min(Head(script), 1)
    IN  IF sent < Len(data)
        THEN IF n <= 0 THEN [t EXCEPT !.connected = FALSE, !.n = 0 - 1]
             ELSE transport_send_loop(
                      [t EXCEPT !.wire = @ \o SubSeq(data, sent + 1, sent + n)],
                      data, sent + n, rest)
        ELSE IF nl <= 0 THEN [t EXCEPT !.connected = FALSE, !.n = 0 - 1]
             ELSE [t EXCEPT !.wire = Append(@, NL), !.n = 0]

\* a send that does not retry after a partial write
transport_send_bytes_NoRetry(t, data, script) ==
    IF ~t.connected THEN [t EXCEPT !.n = 0 - 1]
    ELSE transport_send_loop(
             t, IF script = <<>> THEN data
                ELSE SubSeq(data, 1, Min(Head(script), Len(data))),
             0, script)

transport_send_bytes(t, data, script) ==
    IF ~t.connected THEN [t EXCEPT !.n = 0 - 1]
    ELSE transport_send_loop(t, data, 0, script)

\* transport_close: the socket is closed, the read buffer emptied
transport_close(t) ==
    [t EXCEPT !.connected = FALSE, !.readbuf = <<>>, !.sock = <<>>,
              !.eof = FALSE, !.stream = <<>>, !.got = <<>>]

\* transport_connect, with the outcome ok of try_connect
transport_connect(t, ok) ==
    IF t.connected THEN [t EXCEPT !.n = 0]
    ELSE IF ok THEN [t EXCEPT !.connected = TRUE, !.n = 0]
    ELSE [t EXCEPT !.n = 0 - 1]

\* the sockets a discovery can name and a server can listen at
Endpoints == {1, 2}

\* what one connection attempt meets: the path discover_socket_path finds
\* (0 when it finds none) and the socket a server listens at (0 when no
\* server runs)
Attempts ==
    [found : {0} \cup Endpoints, listening : {0} \cup Endpoints]

\* transport_connect of src/r-package: discovery when no path is stored,
\* then one connect() to the stored path
transport_connect_discover(t, env) ==
    LET t1 == IF t.socket_path = 0
              THEN [t EXCEPT !.socket_path = env.found,
                             !.discoveries = @ + 1]
              ELSE t
    IN  IF t.connected THEN [t EXCEPT !.n = 0]
        ELSE IF t1.socket_path = 0 THEN [t1 EXCEPT !.n = 0 - 1]
        ELSE IF t1.socket_path = env.listening
        THEN [t1 EXCEPT !.dials = @ + 1, !.connected = TRUE, !.n = 0]
        ELSE [t1 EXCEPT !.dials = @ + 1, !.n = 0 - 1]

\* the loop of transport_reconnect from the given attempt on
RECURSIVE transport_reconnect_loop(_, _, _, _)
transport_reconnect_loop(t, envs, attempt, limit) ==
    LET c == transport_connect_discover(t, envs[attempt + 1])
    IN  IF attempt >= limit THEN [t EXCEPT !.n = 0 - 1]
        ELSE IF c.n = 0 THEN c
        ELSE transport_reconnect_loop(c, envs, attempt + 1, limit)

\* a reconnect that keeps the stored path
transport_reconnect_KeepPath(t, envs) ==
    transport_reconnect_loop(
        [transport_close(t) EXCEPT !.dials = 0, !.discoveries = 0],
        envs, 0, ReconnectAttempts)

\* transport_reconnect of src/r-package
transport_reconnect(t, envs) ==
    transport_reconnect_loop(
        [transport_close(t) EXCEPT !.socket_path = 0,
                                   !.dials = 0, !.discoveries = 0],
        envs, 0, ReconnectAttempts)

\* a line the wait loop takes for a metrics_response: one that starts
\* with "r"; every other line is of another type or no JSON at all
IsResponse(buf) == buf # <<>> /\ buf[1] = 114

\* recv_metrics_response over the bytes: t is the transport after a read
\* of the loop returned; the loop runs on until it ends or sits in recv()
RECURSIVE recv_metrics_response_bytes(_)
recv_metrics_response_bytes(t) ==
    LET c == transport_recv_line_call([t EXCEPT !.attempts = @ + 1],
                                      CallerBuf)
    IN  IF t.n <= 0 THEN [t EXCEPT !.caller = "none", !.found = FALSE]
        ELSE IF IsResponse(t.buf)
        THEN [t EXCEPT !.caller = "none", !.found = TRUE]
        ELSE IF t.attempts + 1 >= 5
        THEN [t EXCEPT !.caller = "none", !.found = FALSE,
                       !.attempts = @ + 1]
        ELSE IF c.pc = "recv" THEN c
        ELSE recv_metrics_response_bytes(c)

(***************************************************************************)
(* The state after C_jgd (device.c, lines 95-141 and 228): a connected     *)
(* device of 7 x 7 inches with an empty first page, no plot yet.           *)
(***************************************************************************)
NoOut ==
    [sent |-> <<>>, inreplay |-> 0, read |-> <<>>, log |-> <<>>,
     path |-> "none", target |-> <<0, 0>>, index |-> NoIndex, ret |-> 0,
     arg |-> <<>>]

\* the pid of the R process
FirstPid == 7

\* device.c, line 120: the text snprintf writes for "r-%d-%d"
SessionId(pid, counter) ==
    <<114, 45>> \o Decimal(pid) \o <<45>> \o Decimal(counter)

\* the fields of jgd_state_t after C_jgd, the transport connected
NewState ==
    [connected |-> TRUE,
     session_id |-> SessionId(FirstPid, 1),
     width |-> <<DefaultInches, 1>>,
     height |-> <<DefaultInches, 1>>,
     page_count |-> 0,
     drawing |-> FALSE,
     last_flushed_ops |-> 0,
     hold_level |-> 0,
     replaying |-> FALSE,
     new_page |-> FALSE,
     pending_w |-> 0,
     pending_h |-> 0,
     pending_plot_index |-> NoIndex,
     has_buffered_resize |-> FALSE,
     buffered_w |-> 0,
     buffered_h |-> 0,
     buffered_plot_index |-> NoIndex,
     snapshot_store |-> [i \in 0..(JGD_MAX_SNAPSHOTS - 1) |-> <<>>],
     snapshot_count |-> 0,
     last_snapshot |-> <<>>]

\* what a run may still do: drawing calls and plot.new calls of the host,
\* lines of the peer, metrics queries of the host
Budget(ops, pages, msgs, reqs) ==
    [ops |-> ops, pages |-> pages, msgs |-> msgs, reqs |-> reqs]

\* the state after C_jgd has built the device in state s, with the run b
\* ahead
Start(s, b) ==
    /\ st = s
    /\ page = page_init(Px(s.width), Px(s.height))
    /\ dl = <<>>
    /\ inq = <<>>
    /\ mc = [metrics_id_counter |-> 0, mcache |-> {}]
    /\ out = NoOut
    /\ act = "C_jgd"
    /\ open = TRUE
    /\ peer = [pages |-> 0, ops |-> <<>>, hist |-> <<>>]
    /\ live = [framed |-> FALSE, pages |-> 0, acked |-> 0, hist |-> FALSE,
               added |-> <<>>]
    /\ ser = [cat |-> <<>>, since |-> <<>>, called |-> FALSE, pure |-> TRUE,
              frame |-> <<>>, want |-> <<>>]
    /\ budget = b
    /\ tp = [transport_init EXCEPT !.connected = s.connected]
    /\ proc = [pid |-> FirstPid, device_counter |-> 1,
               issued |-> <<s.session_id>>,
               alone |-> [metrics_id_counter |-> 0, mcache |-> {}]]

Init == Start(NewState, Budget(MaxOps, MaxPages, MaxMsgs, MaxReqs))

(***************************************************************************)
(* Observers.  Frames(msgs) are the frames among the messages sent.  The   *)
(* peer rebuilds pages from the frames alone: a newPage frame starts a     *)
(* page, another non-incremental frame replaces the ops of the page, an    *)
(* incremental frame appends to them.                                      *)
(***************************************************************************)
IsFrame(m) == m.type = "frame"
Frames(msgs) == SelectSeq(msgs, IsFrame)

\* the peer's history: one entry per page (the page is known by its first
\* op), the oldest entry dropped when the history is full
PeerHistoryAdd(hist, f) ==
    IF Len(hist) >= JGD_MAX_SNAPSHOTS THEN Append(Tail(hist), f.ops[1])
    ELSE Append(hist, f.ops[1])

PeerApply(p, f) ==
    IF f.newPage THEN [pages |-> p.pages + 1, ops |-> f.ops,
                       hist |-> PeerHistoryAdd(p.hist, f)]
    ELSE IF ~f.incremental THEN [p EXCEPT !.ops = f.ops]
    ELSE [p EXCEPT !.ops = @ \o f.ops]

RECURSIVE PeerRebuild(_, _)
PeerRebuild(p, frames) ==
    IF frames = <<>> THEN p
    ELSE PeerRebuild(PeerApply(p, Head(frames)), Tail(frames))

\* live after a handler that sent its frames for the live page
LiveAfterFrames(w) ==
    IF Frames(w.out.sent) = <<>> THEN live
    ELSE [live EXCEPT !.framed = TRUE,
                      !.pages = @ + (IF live.framed THEN 0 ELSE 1),
                      !.acked = Len(w.out.log),
                      !.hist = FALSE]

World ==
    [st |-> st, page |-> page, dl |-> dl, inq |-> inq, mc |-> mc,
     out |-> NoOut]

\* the handler `name` ran and left the world w
Commit(w, name) ==
    /\ st' = w.st
    /\ page' = w.page
    /\ dl' = w.dl
    /\ inq' = w.inq
    /\ mc' = w.mc
    /\ out' = w.out
    /\ act' = name
    /\ peer' = PeerRebuild(peer, Frames(w.out.sent))
    /\ ser' = ser
    /\ tp' = tp
    /\ proc' = proc

(***************************************************************************)
(* The host and the peer.                                                  *)
(***************************************************************************)
\* plot.new(): GEinitDisplayList, the newPage callback, the call recorded
HostNewPlot(arrived) ==
    /\ open /\ ~st.drawing /\ budget.pages > 0
    /\ \E w \in {cb_newPage([World EXCEPT !.dl = <<>>], arrived)} :
           /\ Commit([w EXCEPT !.dl = <<0>>], "cb_newPage")
           /\ live' = [LiveAfterFrames(w) EXCEPT
                           !.framed = FALSE,
                           !.acked = 0,
                           !.hist = FALSE,
                           !.added = IF st.last_snapshot # w.st.last_snapshot
                                     THEN Append(@, st.last_snapshot)
                                     ELSE @]
    /\ budget' = [budget EXCEPT !.pages = @ - 1]
    /\ open' = open

\* GEMode(1) before a drawing call
HostMode1 ==
    /\ open /\ ~st.drawing /\ st.page_count > 0
    /\ \E w \in {cb_mode(World, 1)} : Commit(w, "cb_mode1")
    /\ UNCHANGED <<live, budget, open>>

\* a drawing call: one op on the page, the call recorded
HostDraw ==
    /\ open /\ st.drawing /\ budget.ops > 0
    /\ \E op \in {(MaxOps - budget.ops) + 1} :
           \E w \in {cb_draw(World, op)} :
               Commit([w EXCEPT !.dl = Append(@, op)], "cb_draw")
    /\ budget' = [budget EXCEPT !.ops = @ - 1]
    /\ UNCHANGED <<live, open>>

\* GEMode(0) after the drawing calls
HostMode0 ==
    /\ open /\ st.drawing
    /\ \E w \in {cb_mode(World, 0)} :
           Commit(w, "cb_mode0") /\ live' = LiveAfterFrames(w)
    /\ UNCHANGED <<budget, open>>

\* dev.hold() (level 1) and dev.flush() (level -1)
HostHoldFlush(level) ==
    /\ open /\ ~st.drawing /\ st.hold_level + level <= MaxHold
    /\ \E w \in {cb_holdflush(World, level)} :
           Commit(w, "cb_holdflush") /\ live' = LiveAfterFrames(w)
    /\ UNCHANGED <<budget, open>>

\* callbacks.c, cb_close (the input handler is removed first; the state is
\* freed, which the model shows as open = FALSE)
cb_close(w) ==
    LET w1 == IF w.page.op_count > w.st.last_flushed_ops
              THEN jgd_flush_frame(w, FALSE) ELSE w
        w2 == transport_send(w1, [type |-> "close"])
    IN  [w2 EXCEPT !.page = page_free(@), !.st.connected = FALSE]

\* dev.off()
HostClose ==
    /\ open /\ ~st.drawing
    /\ \E w \in {cb_close(World)} :
           Commit(w, "cb_close") /\ live' = LiveAfterFrames(w)
    /\ open' = FALSE
    /\ budget' = budget

\* the strings the host asks the width of: "Hi", 12 pt, plain face, default
\* family (the low 32 bits of the double 12.0 are 0)
Keys == {[str |-> <<72, 105>>, face |-> 1, sz_bits |-> <<0, 0>>,
          family |-> <<>>]}

\* a text layout step of the host: the strWidth callback
HostStrWidth(key, narr) ==
    /\ open /\ st.page_count > 0 /\ budget.reqs > 0
    /\ \E w \in {cb_strWidth(World, key, narr)} :
           Commit([w EXCEPT !.out.arg = key], "cb_strWidth")
    /\ budget' = [budget EXCEPT !.reqs = @ - 1]
    /\ UNCHANGED <<live, open>>

\* the strings "KJ", whose hash is that of "Hi", "Xy", whose hash differs
\* from it and falls into the same slot of the cache, and "c65", which is
\* the name cb_metricInfo gives the character "A"
MetricKeys ==
    Keys \cup {[str |-> <<75, 74>>, face |-> 1, sz_bits |-> <<0, 0>>,
                family |-> <<>>],
               [str |-> <<88, 121>>, face |-> 1, sz_bits |-> <<0, 0>>,
                family |-> <<>>],
               [str |-> <<99, 54, 53>>, face |-> 1, sz_bits |-> <<0, 0>>,
                family |-> <<>>]}

\* the characters the host asks the metrics of: "A"
Chars == {65}

\* a text layout step of the host: the metricInfo callback, with the font
\* of the key gc
HostMetricInfo(c, gc, narr) ==
    /\ open /\ st.page_count > 0 /\ budget.reqs > 0
    /\ \E w \in {cb_metricInfo(World, c, gc, narr)} :
           Commit([w EXCEPT !.out.arg = CharKey(c, gc)], "cb_metricInfo")
    /\ budget' = [budget EXCEPT !.reqs = @ - 1]
    /\ UNCHANGED <<live, open>>

\* C_jgd_poll_resize and jgd_input_handler_cb: the poll hook, which returns
\* at once while a replay or a draw batch is running
PollResize(a1, a2, a3) ==
    /\ open /\ ~st.replaying /\ ~st.drawing /\ st.connected
    /\ \E w \in {poll_resize_impl(World, a1, a2, a3)} :
           /\ Commit(w, "poll_resize")
           /\ live' = IF w.out.path = "historical"
                      THEN [live EXCEPT !.hist = TRUE]
                      ELSE IF w.out.path = "current" THEN LiveAfterFrames(w)
                      ELSE live
    /\ UNCHANGED <<budget, open>>

\* the peer writes one line
PeerSend(m) ==
    /\ open /\ budget.msgs > 0 /\ ~PeerGone(inq)
    /\ inq' = Append(inq, m)
    /\ budget' = [budget EXCEPT !.msgs = @ - 1]
    /\ act' = "peer"
    /\ UNCHANGED <<st, page, dl, mc, out, open, peer, live, ser, tp, proc>>

\* what the peer sends: resizes of the current page, a resize of plot 0 of
\* the history, and the reply to the first metrics request
PeerMessages ==
    CurrentResizes \cup HistoricalResizes \cup {MetricsMsg(1, 1700)}

Forward ==
    \/ \E arrived \in BOOLEAN : HostNewPlot(arrived)
    \/ HostMode1
    \/ HostDraw
    \/ HostMode0
    \/ \E level \in {1, 0 - 1} : HostHoldFlush(level)
    \/ HostClose

Next ==
    \/ Forward
    \/ \E key \in Keys : \E narr \in 0..Len(inq) : HostStrWidth(key, narr)
    \/ \E a1, a2, a3 \in BOOLEAN : PollResize(a1, a2, a3)
    \/ \E m \in PeerMessages : PeerSend(m)

Spec == Init /\ [][Next]_vars

\* forward drawing alone: the peer sends nothing, nothing is polled
SpecForward == Init /\ [][Forward]_vars

\* C_jgd when transport_connect failed: the device opens all the same and
\* records plots that no peer receives
InitOffline ==
    Start([NewState EXCEPT !.connected = FALSE],
          Budget(MaxOps, MaxPages, MaxMsgs, MaxReqs))

\* forward drawing on a device that never connected
SpecOffline == InitOffline /\ [][Forward]_vars

\* forward drawing over enough pages to overflow the snapshot history
InitHistory ==
    Start(NewState, Budget(MaxOps, JGD_MAX_SNAPSHOTS + 2, MaxMsgs, MaxReqs))

SpecHistory == InitHistory /\ [][Forward]_vars

\* pages, metrics queries and the peer's lines, without drawing or polling
NextWait ==
    \/ \E arrived \in BOOLEAN : HostNewPlot(arrived)
    \/ \E key \in Keys : \E narr \in 0..Len(inq) : HostStrWidth(key, narr)
    \/ \E m \in PeerMessages : PeerSend(m)

SpecWait == Init /\ [][NextWait]_vars

\* the replies of the peer to the metrics requests 1 and 2, a reply that
\* carries no positive number, and a line that is no JSON
MetricsLines ==
    {MetricsMsg(1, 1700), MetricsMsg(2, 900), MetricsMsg(1, 0),
     MetricInfoMsg(1, 1100, 300, 1000), Garbage}

\* one page and a run of metrics queries, strWidth and metricInfo, over
\* strings whose cache entries collide
InitMetrics == Start(NewState, Budget(0, 1, MaxMsgs, MaxQueries))

NextMetrics ==
    \/ \E arrived \in BOOLEAN : HostNewPlot(arrived)
    \/ \E key \in MetricKeys : \E narr \in 0..Len(inq) :
           HostStrWidth(key, narr)
    \/ \E c \in Chars : \E gc \in Keys : \E narr \in 0..Len(inq) :
           HostMetricInfo(c, gc, narr)
    \/ \E m \in MetricsLines : PeerSend(m)

SpecMetrics == InitMetrics /\ [][NextMetrics]_vars

\* the peer closes its end
PeerHangup ==
    /\ open /\ ~PeerGone(inq)
    /\ inq' = Append(inq, Hangup)
    /\ act' = "peer"
    /\ UNCHANGED <<st, page, dl, mc, out, open, peer, live, ser, budget, tp, proc>>

\* a device that connected or failed to connect, and a peer that may close
\* its end at any time while the host draws and asks for metrics
InitOutage ==
    \/ Start(NewState, Budget(1, MaxPages, 1, MaxQueries))
    \/ Start([NewState EXCEPT !.connected = FALSE],
             Budget(1, MaxPages, 1, MaxQueries))

NextOutage ==
    \/ Forward
    \/ \E key \in Keys : \E narr \in 0..Len(inq) : HostStrWidth(key, narr)
    \/ \E c \in Chars : \E gc \in Keys : \E narr \in 0..Len(inq) :
           HostMetricInfo(c, gc, narr)
    \/ \E a1, a2, a3 \in BOOLEAN : PollResize(a1, a2, a3)
    \/ \E m \in {MetricsMsg(1, 1700), ResizeMsg(400, 300, FALSE, 0)} :
           PeerSend(m)
    \/ PeerHangup

SpecOutage == InitOutage /\ [][NextOutage]_vars

\* lines the producer has to skip: no JSON, another type, and resizes
\* without a positive width, with and without a plotIndex
InvalidLines ==
    {Garbage, Ping, ResizeMsg(0, 300, FALSE, 0), ResizeMsg(0, 300, TRUE, 0)}

\* drawing, polling and metrics queries while the peer sends lines to skip
\* among its resizes
InitInvalid == Start(NewState, Budget(1, MaxPages, MaxMsgs, MaxReqs))

NextInvalid ==
    \/ Forward
    \/ \E key \in Keys : \E narr \in 0..Len(inq) : HostStrWidth(key, narr)
    \/ \E a1, a2, a3 \in BOOLEAN : PollResize(a1, a2, a3)
    \/ \E m \in InvalidLines \cup {ResizeMsg(400, 300, FALSE, 0)} :
           PeerSend(m)

SpecInvalid == InitInvalid /\ [][NextInvalid]_vars

\* drawing, resizes and polling, without metrics queries
NextResize ==
    \/ Forward
    \/ \E a1, a2, a3 \in BOOLEAN : PollResize(a1, a2, a3)
    \/ \E m \in CurrentResizes \cup HistoricalResizes : PeerSend(m)

SpecResize == Init /\ [][NextResize]_vars

\* the same over two pages and two drawing calls
InitReplay == Start(NewState, Budget(2, 2, MaxMsgs, 0))

SpecReplay == InitReplay /\ [][NextResize]_vars

(***************************************************************************)
(* The page and its serializer on their own: ops are appended and the page *)
(* is serialized, Full (incremental = 0) or Delta (incremental = 1), in    *)
(* any order.  ser keeps what the calls returned: cat is the concatenation *)
(* of the ops arrays of the Delta frames since page_init, pure says that   *)
(* no Full frame was taken since, since holds the ops appended after the   *)
(* last call, frame is the ops array of the last frame and want the ops    *)
(* appended between the last two calls (all ops for a first call).         *)
(***************************************************************************)
SerInit ==
    [cat |-> <<>>, since |-> <<>>, called |-> FALSE, pure |-> TRUE,
     frame |-> <<>>, want |-> <<>>]

PageAdd(op) ==
    /\ Len(page.ops) < MaxOps
    /\ page' = page_add_op(page, op)
    /\ ser' = [ser EXCEPT !.since = Append(@, op)]
    /\ act' = "page_add_op"
    /\ UNCHANGED <<st, dl, inq, mc, out, open, peer, live, budget, tp, proc>>

PageSerialize(incremental, new_page) ==
    /\ LET frame == page_serialize_frame(page, st.session_id, incremental,
                                         new_page)
       IN  ser' = [cat |-> IF incremental THEN ser.cat \o frame.ops
                           ELSE ser.cat,
                   since |-> <<>>,
                   called |-> TRUE,
                   pure |-> ser.pure /\ incremental,
                   frame |-> frame.ops,
                   want |-> IF ser.called THEN ser.since ELSE page.ops]
    /\ page' = page_after_serialize(page)
    /\ act' = IF incremental THEN "delta" ELSE "full"
    /\ UNCHANGED <<st, dl, inq, mc, out, open, peer, live, budget, tp, proc>>

PageInit ==
    /\ page' = page_init(page.width, page.height)
    /\ ser' = SerInit
    /\ act' = "page_init"
    /\ UNCHANGED <<st, dl, inq, mc, out, open, peer, live, budget, tp, proc>>

NextPage ==
    \/ \E op \in 1..MaxOps : PageAdd(op)
    \/ \E incremental, new_page \in BOOLEAN :
           PageSerialize(incremental, new_page)
    \/ PageInit

SpecPage == Init /\ [][NextPage]_vars

(***************************************************************************)
(* The transport on its own, in bytes.  The peer writes bytes and may      *)
(* close its end; the producer calls transport_has_data, and calls         *)
(* transport_recv_line either directly (as check_incoming and              *)
(* poll_resize_impl do) or from the wait loop of a metrics query.  A call  *)
(* that reached recv() goes on when recv() has something to return.        *)
(***************************************************************************)
Bytes == {NL, 97, 114}

Idle == tp.pc = "idle" /\ tp.caller = "none"

Transport(t, name) ==
    /\ tp' = t
    /\ act' = name
    /\ UNCHANGED <<st, page, dl, inq, mc, out, open, peer, live, ser, budget, proc>>

PeerWrite(b) ==
    /\ tp.connected /\ ~tp.eof /\ Len(tp.stream) < MaxBytes
    /\ Transport([tp EXCEPT !.sock = Append(@, b), !.stream = Append(@, b)],
                 "peer_write")

PeerClose ==
    /\ tp.connected /\ ~tp.eof
    /\ Transport([tp EXCEPT !.eof = TRUE], "peer_close")

\* after a read of the call in progress returned: back to the caller
Returned(t) ==
    IF t.pc = "recv" THEN t
    ELSE IF t.caller = "metrics" THEN recv_metrics_response_bytes(t)
    ELSE [t EXCEPT !.caller = "none"]

RecvLine ==
    /\ Idle
    /\ Transport(Returned(transport_recv_line_call(
                     [tp EXCEPT !.caller = "direct"], CallerBuf)),
                 "transport_recv_line")

MetricsWait ==
    /\ Idle
    /\ Transport(Returned(transport_recv_line_call(
                     [tp EXCEPT !.caller = "metrics", !.attempts = 0,
                                !.found = FALSE], CallerBuf)),
                 "recv_metrics_response")

RecvRead ==
    /\ tp.pc = "recv"
    /\ \E r \in RecvResults(tp) :
           Transport(Returned(transport_recv_line_read(tp, r)),
                     IF tp.caller = "metrics" THEN "recv_metrics_response"
                     ELSE "transport_recv_line")

HasData ==
    /\ Idle
    /\ Transport([tp EXCEPT !.n = IF transport_has_data_poll(tp) THEN 1
                                  ELSE 0],
                 "transport_has_data")

NextRecv ==
    \/ \E b \in Bytes : PeerWrite(b)
    \/ PeerClose
    \/ RecvLine
    \/ MetricsWait
    \/ RecvRead
    \/ HasData

InitTransport == Start(NewState, Budget(0, 0, 0, 0))

SpecRecv == InitTransport /\ [][NextRecv]_vars

\* the payloads sent and what the send() calls of one transport_send return
Payloads == {<<>>, <<97>>, <<97, 114>>}
SendScripts ==
    {<<>>} \cup {<<a>> : a \in 0..2} \cup {<<a, b>> : a, b \in 0..2}
        \cup {<<a, b, c>> : a, b, c \in 0..2}

Send(data, script) ==
    /\ Idle /\ tp.sends < MaxSends
    /\ Transport([transport_send_bytes(tp, data, script) EXCEPT
                      !.arg = data, !.sends = @ + 1],
                 "transport_send")

\* the device is closed and a new one opened: transport_close, then
\* transport_connect, which may fail
Reopen(ok) ==
    /\ Idle
    /\ Transport(transport_connect(transport_close(tp), ok), "transport_connect")

NextSend ==
    \/ \E data \in Payloads : \E script \in SendScripts : Send(data, script)
    \/ \E ok \in BOOLEAN : Reopen(ok)

SpecSend == InitTransport /\ [][NextSend]_vars

(***************************************************************************)
(* Connection loss and recovery (src/r-package): the device starts with    *)
(* the transport as transport_init left it, connects, loses the peer,      *)
(* and reconnects while servers come and go.                               *)
(***************************************************************************)
InitReconnect ==
    Start([NewState EXCEPT !.connected = FALSE], Budget(0, 0, 0, 0))

Connect(env) ==
    /\ Idle
    /\ Transport([transport_connect_discover(
                       [tp EXCEPT !.dials = 0, !.discoveries = 0], env)
                      EXCEPT !.arg = <<env>>],
                 "transport_connect")

Reconnect(envs) ==
    /\ Idle
    /\ Transport([transport_reconnect(tp, envs) EXCEPT !.arg = envs],
                 "transport_reconnect")

\* a send() that failed: the transport is marked disconnected
SendFails ==
    /\ Idle /\ tp.connected
    /\ Transport([transport_send_bytes(tp, <<>>, <<0>>) EXCEPT !.arg = <<>>],
                 "transport_send")

NextReconnect ==
    \/ \E env \in Attempts : Connect(env)
    \/ \E envs \in [1..ReconnectAttempts -> Attempts] : Reconnect(envs)
    \/ SendFails

SpecReconnect == InitReconnect /\ [][NextReconnect]_vars

(***************************************************************************)
(* Devices and processes.  jgd() can be called again in the process, with  *)
(* or without dev.off() before it: C_jgd builds a new device and the model *)
(* goes on with that one.  Another R process has statics of its own; its   *)
(* pid can be that of an earlier process (the earlier one has exited, or   *)
(* runs on another machine or in another pid namespace and reaches the     *)
(* same renderer over tcp:// or a shared socket).  proc.issued lists the   *)
(* session ids of all devices built so far.                                *)
(***************************************************************************)
Pids == {FirstPid, 71}

\* C_jgd, with the outcome ok of transport_connect
C_jgd(ok) ==
    LET sid == SessionId(proc.pid, proc.device_counter + 1)
        s == [NewState EXCEPT !.connected = ok, !.session_id = sid]
    IN  /\ Len(proc.issued) < MaxDevices
        /\ ~st.drawing
        /\ st' = s
        /\ page' = page_init(Px(s.width), Px(s.height))
        /\ dl' = <<>>
        /\ inq' = <<>>
        /\ out' = NoOut
        /\ act' = "C_jgd"
        /\ open' = TRUE
        /\ peer' = [pages |-> 0, ops |-> <<>>, hist |-> <<>>]
        /\ live' = [framed |-> FALSE, pages |-> 0, acked |-> 0,
                    hist |-> FALSE, added |-> <<>>]
        /\ budget' = Budget(1, 1, 0, 0)
        /\ proc' = [proc EXCEPT !.device_counter = @ + 1,
                                !.issued = Append(@, sid)]
        /\ UNCHANGED <<mc, ser, tp>>

\* another R process starts: its statics are those of a fresh process
ProcessStart(pid) ==
    /\ Len(proc.issued) < MaxDevices
    /\ ~st.drawing
    /\ proc' = [proc EXCEPT !.pid = pid, !.device_counter = 0,
                            !.alone = [metrics_id_counter |-> 0,
                                       mcache |-> {}]]
    /\ mc' = [metrics_id_counter |-> 0, mcache |-> {}]
    /\ open' = FALSE
    /\ act' = "R"
    /\ UNCHANGED <<st, page, dl, inq, out, peer, live, ser, budget, tp>>

InitSessions == Start(NewState, Budget(1, 1, 0, 0))

NextSessions ==
    \/ Forward
    \/ \E ok \in BOOLEAN : C_jgd(ok)
    \/ \E pid \in Pids : ProcessStart(pid)

SpecSessions == InitSessions /\ [][NextSessions]_vars

(***************************************************************************)
(* Two devices of one process.  A second jgd device is open beside the     *)
(* one the model follows, connected to a renderer of its own that measures *)
(* every string as OtherWidth and answers each request at once.  Its       *)
(* metrics callbacks run on its own jgd_state_t and transport and on the   *)
(* statics of callbacks.c, which the process has once.                     *)
(***************************************************************************)
OtherWidth == 900

\* the world of the second device, with the metrics statics given
OtherWorld(statics) ==
    [st |-> [NewState EXCEPT
                 !.session_id = SessionId(proc.pid, proc.device_counter + 1),
                 !.page_count = 1],
     page |-> page_init(Px(NewState.width), Px(NewState.height)),
     dl |-> <<0>>,
     inq |-> <<MetricsMsg(statics.metrics_id_counter + 1, OtherWidth)>>,
     mc |-> statics,
     out |-> NoOut]

\* a text layout step of the host on the second device
OtherStrWidth(key) ==
    /\ open /\ st.page_count > 0 /\ budget.reqs > 0
    /\ \E w \in {cb_strWidth(OtherWorld(mc), key, 1)} :
           /\ mc' = w.mc
           /\ out' = [w.out EXCEPT !.arg = key]
    /\ proc' = [proc EXCEPT
                    !.alone = cb_strWidth(OtherWorld(@), key, 1).mc]
    /\ act' = "other.cb_strWidth"
    /\ budget' = [budget EXCEPT !.reqs = @ - 1]
    /\ UNCHANGED <<st, page, dl, inq, open, peer, live, ser, tp>>

NextShared ==
    \/ NextMetrics
    \/ \E key \in MetricKeys : OtherStrWidth(key)

SpecShared == InitMetrics /\ [][NextShared]_vars

(***************************************************************************)
(* Properties.                                                             *)
(***************************************************************************)

\* C1: in forward drawing with the transport connected and no resize, the
\* page the peer rebuilds from the frames equals the producer's op log after
\* every frame, the peer has as many pages as the producer has pages with a
\* frame, and a page that is retired (cb_newPage, cb_close) has all its ops
\* at the peer.
C1_PeerPageEqualsLog ==
    [][/\ peer'.pages = live'.pages
       /\ (Frames(out'.sent) # <<>> => peer'.ops = out'.log)
       /\ (act' \in {"cb_newPage", "cb_close"} /\ page.op_count > 0
              => peer'.ops = page.ops)]_vars

\* a second page whose ops reached the peer in a full and a delta frame
C1_Witness ==
    /\ Frames(out.sent) # <<>>
    /\ out.sent[1].incremental
    /\ peer.pages = 2
    /\ Len(peer.ops) = 2

\* C2: after any appends interleaved with Delta serializations only, the
\* concatenation of the Delta frames' ops arrays is the ops array of a Full
\* serialization of the page.
C2_DeltaConcatIsFull ==
    (act = "delta" /\ ser.pure)
        => ser.cat = page_serialize_frame(page, st.session_id, FALSE, FALSE).ops

\* three ops that went out in more than one Delta frame
C2_Witness ==
    /\ act = "delta" /\ ser.pure
    /\ Len(ser.cat) = 3
    /\ Len(ser.frame) = 1

\* C3: a Delta call emits exactly the ops appended since the previous
\* page_serialize_frame call (Full or Delta) on the page, none when nothing
\* was appended, and every op of the page when it is the first call.
C3_DeltaEmitsAppended ==
    act = "delta" => ser.frame = ser.want

\* a Delta call after a Full call with one op appended in between
C3_Witness ==
    /\ act = "delta" /\ ~ser.pure
    /\ Len(ser.frame) = 1
    /\ Len(page.ops) = 3

\* the ops a replay of a snapshot appends to the page
IsDrawItem(item) == item # 0
SnapshotOps(snap) == SelectSeq(snap, IsDrawItem)

\* the valid resize messages among the lines read
IsValidResize(m) == jgd_try_parse_resize(m)
NValid(lines) == Len(SelectSeq(lines, IsValidResize))

\* the resize requests held unapplied: the buffer slot and the pending size
Held(s) ==
    (IF s.has_buffered_resize THEN 1 ELSE 0)
        + (IF s.pending_w > 0 /\ s.pending_h > 0 THEN 1 ELSE 0)

ForwardHandlers == {"cb_mode0", "cb_holdflush", "cb_newPage", "cb_close"}

\* C4: a current-page resize to (w, h) applied by poll_resize_impl to a page
\* with ops sends nothing during the replay and exactly one frame after it,
\* non-incremental, of width w and height h, holding all ops of the page.
C4_CurrentResizeOneFullFrame ==
    [][(act' = "poll_resize" /\ out'.path = "current" /\ page.op_count > 0)
          => /\ out'.inreplay = 0
             /\ Len(out'.sent) = 1
             /\ IsFrame(out'.sent[1])
             /\ ~out'.sent[1].incremental
             /\ out'.sent[1].width = out'.target[1]
             /\ out'.sent[1].height = out'.target[2]
             /\ out'.sent[1].ops = page.ops]_vars

\* C5: a resize whose plotIndex names a stored snapshot sends exactly one
\* frame, non-incremental, holding the snapshot's ops at the target size,
\* and leaves the live page's op log as it was.
C5_HistoricalResizeOneFrame ==
    [][(act' = "poll_resize" /\ out'.path = "historical")
          => /\ Len(out'.sent) = 1
             /\ IsFrame(out'.sent[1])
             /\ ~out'.sent[1].incremental
             /\ out'.sent[1].ops =
                    SnapshotOps(st.snapshot_store[out'.index][1])
             /\ out'.sent[1].width = out'.target[1]
             /\ out'.sent[1].height = out'.target[2]
             /\ page'.ops = page.ops]_vars

\* C6: the first frame forward drawing sends for the live page after a
\* historical resize holds, when incremental, exactly the live page's ops
\* appended since the last frame sent for the live page, and when it
\* replaces the page, exactly the live page's ops.
C6_NoLeakAfterHistorical ==
    [][(live.hist /\ act' \in ForwardHandlers /\ Frames(out'.sent) # <<>>)
          => LET f == Frames(out'.sent)[1]
                 log == out'.log
             IN  IF f.incremental
                 THEN f.ops = SubSeq(log, live.acked + 1, Len(log))
                 ELSE f.ops = log]_vars

\* C7: a historical resize leaves the device size of the live page as it
\* was before the resize.
C7_HistoricalKeepsLiveSize ==
    [][(act' = "poll_resize" /\ out'.path = "historical")
          => /\ st'.width = st.width
             /\ st'.height = st.height
             /\ page'.width = page.width
             /\ page'.height = page.height]_vars

\* the current-page resize waiting beside the buffer: the pending size, or
\* else the valid resize without plotIndex at the head of the transport
CurrentWaiting(s, q) ==
    IF s.pending_w > 0 /\ s.pending_h > 0
    THEN <<s.pending_w, s.pending_h>>
    ELSE IF q # <<>> /\ jgd_try_parse_resize(q[1]) /\ ~q[1].hasIndex
         THEN <<q[1].width, q[1].height>>
         ELSE <<0, 0>>

\* C8: when a historical resize is in the buffer and a current-page resize
\* has arrived beside it (pending, or next on the transport), a poll applies
\* one of the two and keeps the other for a later poll.
C8_BothResizesSurvive ==
    [][(/\ act' = "poll_resize"
        /\ st.has_buffered_resize
        /\ CurrentWaiting(st, inq) # <<0, 0>>)
          => \/ /\ out'.target = <<st.buffered_w, st.buffered_h>>
                /\ CurrentWaiting(st', inq') = CurrentWaiting(st, inq)
             \/ /\ out'.target = CurrentWaiting(st, inq)
                /\ st'.has_buffered_resize
                /\ st'.buffered_w = st.buffered_w
                /\ st'.buffered_h = st.buffered_h]_vars

\* C9: a poll made while the page has content sends as many frames as it
\* takes up resize requests (those it reads from the transport or finds
\* held, less those it leaves held).
C9_OneFramePerResize ==
    [][(act' = "poll_resize" /\ page.op_count > 0)
          => Len(Frames(out'.sent))
                 = (NValid(out'.read) + Held(st)) - Held(st')]_vars

\* C10: one call of the poll hook consumes at most one inbound message.
C10_OneMessagePerPoll ==
    act = "poll_resize" => Len(out.read) <= 1

\* C11: a frame carries newPage exactly when it is the first frame sent for
\* a page in forward drawing, and that frame is non-incremental; no frame of
\* a resize replay and no later frame of a page carries newPage.
C11_NewPageOnFirstFrameOnly ==
    [][act' # "peer"
          => \A i \in 1..Len(Frames(out'.sent)) :
                 LET f == Frames(out'.sent)[i]
                     first == /\ act' \in ForwardHandlers
                              /\ ~live.framed
                              /\ i = 1
                 IN  /\ f.newPage <=> first
                     /\ first => ~f.incremental]_vars

\* C12: a snapshot is captured only in a handler that has handed a
\* non-incremental frame of the page to the transport.
C12_CaptureAfterSentFullFrame ==
    [][(st'.last_snapshot # <<>> /\ st'.last_snapshot # st.last_snapshot)
          => \E i \in 1..Len(out'.sent) :
                 IsFrame(out'.sent[i]) /\ ~out'.sent[i].incremental]_vars

\* C13: the snapshot cb_newPage moves into the history when it retires a
\* page records the complete op log of that page.
C13_StoredSnapshotIsWholePage ==
    [][(/\ act' = "cb_newPage"
        /\ st.last_snapshot # <<>>
        /\ st'.last_snapshot = <<>>)
          => SnapshotOps(st'.snapshot_store[st'.snapshot_count - 1][1])
                 = page.ops]_vars

\* C14: every entry of the producer's snapshot history is the snapshot of
\* the page the peer's history holds at the same index.
C14_HistoryIndicesAligned ==
    \A k \in 0..(st.snapshot_count - 1) :
        /\ k + 1 <= Len(peer.hist)
        /\ Head(SnapshotOps(st.snapshot_store[k][1])) = peer.hist[k + 1]

\* C15: the snapshot history holds, in the order they were added, the last
\* snapshots added, as many as its capacity allows: never more than
\* JGD_MAX_SNAPSHOTS, the oldest dropped and the others moved down by one
\* when a snapshot is added to a full history.
C15_HistoryKeepsNewest ==
    LET n == Len(live.added)
        count == st.snapshot_count
    IN  /\ count <= JGD_MAX_SNAPSHOTS
        /\ count = (IF n < JGD_MAX_SNAPSHOTS THEN n ELSE JGD_MAX_SNAPSHOTS)
        /\ \A i \in 0..(count - 1) :
               st.snapshot_store[i] = live.added[(n - count) + i + 1]

\* capacity + 1 snapshots were added: index 0 holds the second of them
C15_Witness ==
    /\ act = "cb_newPage"
    /\ Len(live.added) = JGD_MAX_SNAPSHOTS + 1
    /\ st.snapshot_store[0] = live.added[2]
    /\ st.snapshot_store[0] # live.added[1]
    /\ st.snapshot_store[JGD_MAX_SNAPSHOTS - 1]
           = live.added[JGD_MAX_SNAPSHOTS + 1]

\* C16: a resize whose plotIndex is at or above the snapshot count replays
\* nothing, sends no frame and leaves the live page and the device size as
\* they were.
C16_OutOfRangeIndexIgnored ==
    [][(act' = "poll_resize" /\ out'.index >= st.snapshot_count)
          => /\ out'.sent = <<>>
             /\ page' = page
             /\ st'.width = st.width
             /\ st'.height = st.height]_vars

\* C17: a captured snapshot holds the ops of the page at capture time, and
\* its replay for a resize yields a page (sent as the frame of the resize)
\* with exactly the snapshot's ops, in order, at the target size of the
\* resize.
C17_SnapshotRoundTrip ==
    [][/\ (st'.last_snapshot # <<>> /\ st'.last_snapshot # st.last_snapshot)
              => SnapshotOps(st'.last_snapshot[1]) = page'.ops
       /\ (act' = "poll_resize" /\ out'.path = "historical")
              => /\ Frames(out'.sent) # <<>>
                 /\ Frames(out'.sent)[1].ops
                        = SnapshotOps(st.snapshot_store[out'.index][1])
                 /\ Frames(out'.sent)[1].width = out'.target[1]
                 /\ Frames(out'.sent)[1].height = out'.target[2]]_vars

\* C18: a current-page resize whose replay records no ops (the display list
\* holds no drawing call) sends no frame and sets the device size to the
\* target.
C18_EmptyReplaySendsNothing ==
    [][(/\ act' = "poll_resize"
        /\ out'.path = "current"
        /\ SnapshotOps(dl) = <<>>)
          => /\ out'.sent = <<>>
             /\ st'.width = Inches(out'.target[1])
             /\ st'.height = Inches(out'.target[2])]_vars

\* the valid resizes among the lines read, without and with a plotIndex
IsCurrentResize(m) == jgd_try_parse_resize(m) /\ ~m.hasIndex
IsHistoricalResize(m) == jgd_try_parse_resize(m) /\ m.hasIndex

\* the pending size and the buffer slot of a state
PendingOf(s) == <<s.pending_w, s.pending_h>>
BufferOf(s) ==
    <<s.has_buffered_resize, s.buffered_w, s.buffered_h,
      s.buffered_plot_index>>

RECURSIVE AsCheckIncoming(_, _)
AsCheckIncoming(s, lines) ==
    IF lines = <<>> THEN s
    ELSE AsCheckIncoming(
             check_incoming([World EXCEPT !.st = s,
                                          !.inq = <<Head(lines)>>], TRUE).st,
             Tail(lines))

\* C20: the lines read during a metrics wait change the pending size and
\* the buffer slot exactly as check_incoming would change them, line by
\* line, from the same state.
C20_WaitActsAsCheckIncoming ==
    [][act' = "cb_strWidth"
          => /\ PendingOf(st') = PendingOf(AsCheckIncoming(st, out'.read))
             /\ BufferOf(st') = BufferOf(AsCheckIncoming(st, out'.read))]_vars

(***************************************************************************)
(* The metrics exchange.                                                   *)
(***************************************************************************)
MetricsHandlers == {"cb_strWidth", "cb_metricInfo"}

\* the metrics_response the last metrics query ended its wait with
AnswerRead ==
    IF out.read # <<>> /\ out.read[Len(out.read)].type = "metrics_response"
    THEN {out.read[Len(out.read)]}
    ELSE {}

\* what a metrics callback returns when it takes its result from m
ResultOf(name, m) ==
    IF name = "cb_strWidth" THEN Num(m, "width")
    ELSE <<Num(m, "ascent"), Num(m, "descent"), Num(m, "width")>>

\* the entry of the cache that a lookup of key finds
CachedFor(cache, key) == mcache_lookup(cache, mcache_hash(key))

\* C21: the value a metrics query returns or caches comes from the
\* metrics_response whose id is the id of the request the query sent; a
\* response carrying another id (the late reply to an earlier request that
\* timed out) is never used.
C21_AnswerMatchesRequest ==
    (act \in MetricsHandlers /\ out.sent # <<>>) =>
        \A m \in AnswerRead :
            (\/ out.ret = ResultOf(act, m)
             \/ \E e \in CachedFor(mc.mcache, out.arg) :
                    <<e.v1, e.v2, e.v3>> \in
                        {<<Num(m, "width"), 0, 0>>,
                         <<Num(m, "ascent"), Num(m, "descent"),
                           Num(m, "width")>>})
                => m.id = out.sent[1].id

(***************************************************************************)
(* The transport.                                                          *)
(***************************************************************************)
\* a call of transport_recv_line sits in recv() and recv() has nothing to
\* return: no byte, no end of stream, and room left in the read buffer
BlockedInRecv ==
    tp.pc = "recv" /\ RecvResults(tp) = {}

\* C22: a metrics query on a connected transport ends after at most 5 line
\* reads, on a response, a timeout, a failure or the fifth line: its wait
\* never counts a sixth read and never sits waiting for bytes of the peer.
C22_MetricsWaitEnds ==
    /\ tp.attempts <= 5
    /\ tp.caller = "metrics" => ~BlockedInRecv

\* C23: transport_recv_line with a finite timeout returns (a line, a
\* timeout or a disconnect) without needing further bytes from the peer, in
\* particular after a partial line without newline, and also when it is
\* called with timeout 0 after transport_has_data reported data.
C23_RecvLineReturns ==
    tp.caller = "direct" => ~BlockedInRecv

\* the values a metrics callback stores in the cache with the result ret
EntryOf(name, ret) ==
    IF name = "cb_strWidth" THEN <<ret, 0, 0>> ELSE ret

\* the last metrics query sent a request and took its result from the
\* response it read
AnsweredByPeer ==
    /\ act \in MetricsHandlers
    /\ out.sent # <<>>
    /\ \E m \in AnswerRead :
           /\ Num(m, "width") > 0 \/ (act = "cb_metricInfo" /\
                  (Num(m, "ascent") > 0 \/ Num(m, "descent") > 0))
           /\ out.ret = ResultOf(act, m)

\* C24: the metrics cache is written only by a query that a metrics
\* response answered, and with the value the query returns; a query that
\* falls back to the local approximation leaves the cache alone; and the
\* query repeated right after an answered one, for the same key, returns
\* the same value without sending a request.
C24_CacheWrittenBySuccessOnly ==
    [][/\ mc'.mcache # mc.mcache =>
              /\ AnsweredByPeer'
              /\ \E e \in CachedFor(mc'.mcache, out'.arg) :
                     <<e.v1, e.v2, e.v3>> = EntryOf(act', out'.ret)
       /\ (act' \in MetricsHandlers /\ ~AnsweredByPeer') =>
              mc'.mcache = mc.mcache
       /\ (AnsweredByPeer /\ act' = act /\ out'.arg = out.arg) =>
              /\ out'.sent = <<>>
              /\ out'.read = <<>>
              /\ out'.ret = out.ret]_vars

\* a query was answered from the cache, no request sent
C24_Witness ==
    /\ act \in MetricsHandlers
    /\ st.connected
    /\ out.sent = <<>>
    /\ mc.metrics_id_counter = 1
    /\ CachedFor(mc.mcache, out.arg) # {}
    /\ out.ret = IF act = "cb_strWidth" THEN 1700 ELSE <<1100, 300, 1000>>

\* the entries of the cache in the slot of the key, and those among them
\* that carry the hash of the key
InSlot(cache, key) ==
    {e \in cache : e.slot = mcache_hash(key)[2] % MCACHE_SIZE}
SameHash(cache, key) ==
    {e \in InSlot(cache, key) : e.hash = mcache_hash(key)}

\* C25: a metrics query on a connected transport is answered from the cache
\* exactly when the slot of its hash is occupied by an entry with that very
\* hash, whatever key stored it: the query then returns the stored value
\* and sends nothing.  Otherwise a request is sent, and when the peer
\* answers it the result replaces what the slot held.
C25_HitByHashAlone ==
    [][(act' \in MetricsHandlers /\ st.connected) =>
           /\ \A e \in SameHash(mc.mcache, out'.arg) :
                  /\ out'.sent = <<>>
                  /\ out'.ret = IF act' = "cb_strWidth" THEN e.v1
                                ELSE <<e.v1, e.v2, e.v3>>
                  /\ mc'.mcache = mc.mcache
           /\ SameHash(mc.mcache, out'.arg) = {} =>
                  /\ Len(out'.sent) = 1
                  /\ out'.sent[1].type = "metrics_request"
                  /\ AnsweredByPeer' =>
                         /\ mc'.mcache \ InSlot(mc'.mcache, out'.arg)
                                = mc.mcache \ InSlot(mc.mcache, out'.arg)
                         /\ \E e \in mc'.mcache :
                                /\ InSlot(mc'.mcache, out'.arg) = {e}
                                /\ e.hash = mcache_hash(out'.arg)
                                /\ <<e.v1, e.v2, e.v3>>
                                       = EntryOf(act', out'.ret)]_vars

\* the string "c65" was given, as its width, the ascent that a metricInfo
\* query for the character "A" had stored under the same hash
C25_Witness ==
    /\ act = "cb_strWidth"
    /\ st.connected
    /\ out.arg.str = <<99, 54, 53>>
    /\ out.sent = <<>>
    /\ out.ret = 1100

(***************************************************************************)
(* The device without a peer.                                              *)
(***************************************************************************)
\* C26: while the transport is disconnected (it never connected, or a send
\* or a read failed), a drawing call still adds its op to the page and
\* plot.new still starts the next page; cb_strWidth and cb_metricInfo
\* return the local approximation for their argument and leave the cache
\* and the id counter alone; and no callback sends a message or reads from
\* the transport, so none can wait for the peer.
C26_WorksOffline ==
    [][(~st.connected /\ act' # "peer") =>
           /\ ~st'.connected
           /\ out'.sent = <<>>
           /\ out'.read = <<>>
           /\ inq' = inq
           /\ act' = "cb_draw" =>
                  /\ page'.op_count = page.op_count + 1
                  /\ Len(page'.ops) = Len(page.ops) + 1
                  /\ SubSeq(page'.ops, 1, Len(page.ops)) = page.ops
           /\ act' = "cb_newPage" =>
                  /\ st'.page_count = st.page_count + 1
                  /\ page'.ops = <<>>
           /\ act' = "cb_strWidth" =>
                  /\ out'.ret = metrics_str_width(out'.arg)
                  /\ mc' = mc
           /\ act' = "cb_metricInfo" =>
                  /\ \E c \in Chars :
                         /\ out'.arg = CharKey(c, out'.arg)
                         /\ out'.ret = metrics_char_info(c, out'.arg)
                  /\ mc' = mc]_vars

\* a query is answered by the local approximation although the cache holds
\* an entry for it, because a send or a read has failed since
C26_Witness ==
    /\ act = "cb_strWidth"
    /\ ~st.connected
    /\ st.page_count > 0
    /\ CachedFor(mc.mcache, out.arg) # {}
    /\ out.ret = metrics_str_width(out.arg)

\* C27: transport_send on a connected transport either writes the whole
\* payload and then one newline, whatever part of it each send() accepts,
\* and returns 0, or, when a send() fails, leaves a proper prefix of that
\* line written, marks the transport disconnected and returns -1; on a
\* disconnected transport it returns -1 and writes no byte, until a
\* connect has succeeded.
C27_SendWholeLineOrDisconnect ==
    [][act' = "transport_send" =>
           LET line == Append(tp'.arg, NL)
           IN  IF ~tp.connected
               THEN /\ tp'.n = 0 - 1
                    /\ tp'.wire = tp.wire
                    /\ ~tp'.connected
               ELSE \/ /\ tp'.n = 0
                       /\ tp'.connected
                       /\ tp'.wire = tp.wire \o line
                    \/ /\ tp'.n = 0 - 1
                       /\ ~tp'.connected
                       /\ \E k \in 0..(Len(line) - 1) :
                              tp'.wire = tp.wire \o SubSeq(line, 1, k)]_vars

\* a send was refused on a transport that an earlier send, failing after
\* a partial write, had disconnected
C27_Witness ==
    /\ act = "transport_send"
    /\ tp.sends = 2
    /\ ~tp.connected
    /\ tp.n = 0 - 1
    /\ tp.wire = <<97>>
    /\ tp.arg = <<>>

\* the pieces of a byte stream between its newlines, the unfinished last
\* piece included
RECURSIVE Segments(_)
Segments(bytes) ==
    IF NewlineAt(bytes) = 0 THEN <<bytes>>
    ELSE <<SubSeq(bytes, 1, NewlineAt(bytes) - 1)>>
             \o Segments(SubSeq(bytes, NewlineAt(bytes) + 1, Len(bytes)))

\* the lines, each followed by its newline, as one byte stream
RECURSIVE Joined(_)
Joined(lines) ==
    IF lines = <<>> THEN <<>>
    ELSE Head(lines) \o <<NL>> \o Joined(Tail(lines))

\* every message of the stream fits the caller's buffer
AllFit(bytes) ==
    \A i \in 1..Len(Segments(bytes)) :
        Len(Segments(bytes)[i]) <= CallerBuf - 1

C29_LongLineTruncated ==
    /\ \A i \in 1..Len(tp.got) :
           tp.got[i] = SubSeq(Segments(tp.stream)[i], 1,
                              Min(Len(Segments(tp.stream)[i]), CallerBuf - 1))
    /\ ~(/\ act \in {"transport_recv_line", "recv_metrics_response"}
         /\ tp.pc = "idle"
         /\ ~tp.connected
         /\ ~tp.eof)

(***************************************************************************)
(* Lines to skip.                                                          *)
(***************************************************************************)
\* a line that is neither a resize with positive width and height nor a
\* metrics_response
IsInvalidLine(m) == ~IsValidResize(m) /\ m.type # "metrics_response"

\* the resize state of the device
ResizeState(s) ==
    <<s.pending_w, s.pending_h, s.pending_plot_index,
      s.has_buffered_resize, s.buffered_w, s.buffered_h,
      s.buffered_plot_index>>

\* C30: a handler that starts with no resize pending or buffered and reads
\* nothing but lines to skip (no JSON, another type, a resize without
\* positive width and height) leaves the resize state as it was: pending
\* size, pending plot index and buffered resize keep their values, and the
\* poll sends nothing.
C30_InvalidLineSkipped ==
    [][(/\ act' # "peer"
        /\ ResizeState(st) = ResizeState(NewState)
        /\ out'.read # <<>>
        /\ \A i \in 1..Len(out'.read) : IsInvalidLine(out'.read[i])) =>
           /\ ResizeState(st') = ResizeState(st)
           /\ act' = "poll_resize" => out'.sent = <<>>]_vars

\* the ops of the live page that no frame has carried to the peer yet
UnsentOps(p, l) == SubSeq(p.ops, l.acked + 1, Len(p.ops))

\* C31: cb_close on a connected device sends, when the live page has ops
\* that no frame carried yet, one non-incremental frame holding all ops of
\* the page, then exactly one close message, and closes the transport; the
\* close message is the last message sent and nothing is sent once the
\* device is closed.
C31_CloseFlushesThenCloses ==
    [][/\ (act' = "cb_close" /\ st.connected /\ ~PeerGone(inq))
              => LET n == Len(out'.sent)
                 IN  /\ n = (IF UnsentOps(page, live) # <<>> THEN 2 ELSE 1)
                     /\ out'.sent[n] = [type |-> "close"]
                     /\ n = 2 => /\ IsFrame(out'.sent[1])
                                 /\ ~out'.sent[1].incremental
                                 /\ out'.sent[1].ops = page.ops
                     /\ ~st'.connected
                     /\ ~open'
       /\ ~open => out' = out]_vars

\* the first attempt of a reconnect at which discovery finds a path, and
\* the first from there on at which a server listens at that path (0 when
\* there is none)
FirstFound(envs) ==
    IF \E i \in 1..Len(envs) : envs[i].found # 0
    THEN CHOOSE i \in 1..Len(envs) :
             envs[i].found # 0 /\ \A j \in 1..(i - 1) : envs[j].found = 0
    ELSE 0

FirstAnswered(envs) ==
    LET d == FirstFound(envs)
        Hit(i) == i >= d /\ envs[d].found = envs[i].listening
    IN  IF d # 0 /\ \E i \in 1..Len(envs) : Hit(i)
        THEN CHOOSE i \in 1..Len(envs) :
                 Hit(i) /\ \A j \in 1..(i - 1) : ~Hit(j)
        ELSE 0

\* C32: transport_reconnect drops the connection it had and the path it
\* used, so that the path it dials is one discovery found during the call;
\* it dials at most ReconnectAttempts times, returns 0 with the transport
\* connected at the first dial that is answered and makes no dial after it,
\* and otherwise returns -1 with the transport disconnected.
C32_ReconnectBounded ==
    [][act' = "transport_reconnect" =>
           LET envs == tp'.arg
               d == FirstFound(envs)
               a == FirstAnswered(envs)
           IN  /\ tp'.dials <= ReconnectAttempts
               /\ tp'.discoveries >= 1
               /\ tp'.socket_path = (IF d = 0 THEN 0 ELSE envs[d].found)
               /\ tp'.readbuf = <<>>
               /\ IF a # 0
                  THEN /\ tp'.n = 0 /\ tp'.connected
                       /\ tp'.dials = (a - d) + 1
                  ELSE /\ tp'.n = 0 - 1 /\ ~tp'.connected]_vars

\* a reconnect from a live connection to socket 1 that found socket 2 and
\* was answered at its third dial
C32_Witness ==
    /\ act = "transport_reconnect"
    /\ tp.connected /\ tp.n = 0
    /\ tp.dials = ReconnectAttempts
    /\ tp.socket_path = 2
    /\ tp.arg[1].listening = 1

\* C33: every frame a device sends carries the session id the device got
\* when it was built, which stays the same until the device is closed, and
\* no two devices, of one process or of different processes, were given
\* the same session id.
C33_SessionIdStableAndUnique ==
    [][/\ \A i \in 1..Len(out'.sent) :
              IsFrame(out'.sent[i]) => out'.sent[i].sessionId = st.session_id
       /\ (act' \notin {"C_jgd", "R"} => st'.session_id = st.session_id)
       /\ \A i, j \in 1..Len(proc'.issued) :
              i # j => proc'.issued[i] # proc'.issued[j]]_vars

\* the log a is the beginning of the log b
IsPrefix(a, b) == Len(a) <= Len(b) /\ SubSeq(b, 1, Len(a)) = a

\* C34: op_count is the number of ops in the log of the page; page_add_op
\* puts one op at the end of the log and leaves the ops before it as they
\* were, in their order; page_serialize_frame, Full or Delta, leaves the
\* log and op_count as they were; only page_init, which starts a new page,
\* empties the log or lowers op_count.
C34_LogAppendOnly ==
    [][/\ page'.op_count = Len(page'.ops)
       /\ act' = "page_add_op"
              => /\ Len(page'.ops) = Len(page.ops) + 1
                 /\ IsPrefix(page.ops, page'.ops)
                 /\ page'.op_count = page.op_count + 1
       /\ act' \in {"delta", "full"}
              => /\ page'.ops = page.ops
                 /\ page'.op_count = page.op_count
       /\ (~IsPrefix(page.ops, page'.ops) \/ page'.op_count < page.op_count)
              => act' = "page_init"]_vars

\* a Full frame taken of a log of three different ops, after an earlier
\* frame
C34_Witness ==
    /\ act = "full"
    /\ ser.called
    /\ page.ops = <<1, 2, 3>>
    /\ page.op_count = 3
    /\ ser.frame = page.ops

\* the snapshot bookkeeping of the device
SnapshotState(s) == <<s.last_snapshot, s.snapshot_store, s.snapshot_count>>

\* C35: the replays of poll_resize_impl (GEplayDisplayList, GEplaySnapshot)
\* run with st->replaying set, and while it is set no callback sends a
\* message, captures a snapshot or moves one into the history: no message
\* of the poll went out during a replay, and last_snapshot, the snapshot
\* store and snapshot_count are after the poll what they were before it.
C35_ReplayIsSilent ==
    [][act' = "poll_resize"
          => /\ out'.inreplay = 0
             /\ SnapshotState(st') = SnapshotState(st)]_vars

\* a historical resize replayed a stored snapshot and the live page, with
\* its op, while a captured snapshot of the live page was waiting
C35_Witness ==
    /\ act = "poll_resize"
    /\ out.path = "historical"
    /\ Len(Frames(out.sent)) = 1
    /\ st.last_snapshot # <<>>
    /\ st.snapshot_count = 1
    /\ Len(page.ops) = 1

\* the world in the course of a replay of the display list by
\* poll_resize_impl, when k of its calls have been played
MidReplay(k, arrived) ==
    PlayItems([World EXCEPT !.st.replaying = TRUE], SubSeq(dl, 1, k),
              arrived)

\* C36: called while a replay is running (at any point of it) or while a
\* draw batch is open, C_jgd_poll_resize and the input handler's poll
\* return the world as it is: no line is read, nothing is sent, no field
\* changes, so no replay starts inside a replay or a batch; and when
\* poll_resize_impl has run for either of them, st->replaying is cleared.
C36_NoPollWhileBusy ==
    open =>
        /\ \A arrived \in BOOLEAN : \A k \in 0..Len(dl) :
               LET mid == MidReplay(k, arrived)
               IN  \A a1, a2, a3 \in BOOLEAN :
                       /\ C_jgd_poll_resize(mid, a1, a2, a3) = mid
                       /\ jgd_input_handler_cb(mid, a1, a2, a3) = mid
        /\ \A a1, a2, a3 \in BOOLEAN :
               IF st.drawing
               THEN /\ C_jgd_poll_resize(World, a1, a2, a3) = World
                    /\ jgd_input_handler_cb(World, a1, a2, a3) = World
               ELSE LET r == C_jgd_poll_resize(World, a1, a2, a3)
                    IN  /\ ~r.st.replaying
                        /\ jgd_input_handler_cb(World, a1, a2, a3)
                               = (IF st.connected THEN r ELSE World)

\* a draw batch is open on a page with ops while a valid resize waits on
\* the transport, which poll_resize_impl would read and apply
C36_Witness ==
    /\ open /\ st.drawing /\ st.connected
    /\ page.op_count > 0
    /\ inq # <<>> /\ IsValidResize(inq[1])
    /\ poll_resize_impl(World, TRUE, TRUE, TRUE).inq # inq
    /\ poll_resize_impl(World, TRUE, TRUE, TRUE).out.sent # <<>>

\* the frames in msgs all carry the size of the page p
CarrySizeOf(msgs, p) ==
    \A i \in 1..Len(Frames(msgs)) :
        /\ Frames(msgs)[i].width = p.width
        /\ Frames(msgs)[i].height = p.height

C38_HoldDefersFrames ==
    [][/\ (act' = "cb_mode0" /\ st.hold_level > 0) => out'.sent = <<>>
       /\ (/\ act' = "cb_holdflush"
           /\ st.hold_level > 0
           /\ st'.hold_level = 0
           /\ UnsentOps(page, live) # <<>>)
              => /\ Len(out'.sent) = 1
                 /\ IsFrame(out'.sent[1])
                 /\ ~out'.sent[1].incremental
                 /\ out'.sent[1].ops = page.ops
       /\ st'.hold_level >= 0
       /\ act' = "cb_holdflush" => out'.ret = st.hold_level]_vars

\* C39: a poll that applies a resize, of the live page or of a page of the
\* history, leaves the hold level as it was; under a hold it sends none of
\* the live page's ops that no frame carried yet; and it counts no op as
\* flushed that no frame carried.
C39_ResizeKeepsHold ==
    [][(act' = "poll_resize" /\ out'.path # "none")
          => /\ st'.hold_level = st.hold_level
             /\ st.hold_level > 0
                    => UnsentOps(page', live') = UnsentOps(page, live)
             /\ st'.last_flushed_ops <= live'.acked]_vars

\* C40: a metrics query of one device session behaves as if no other
\* session of the process had asked for metrics: the width it returns and
\* the requests it sends (with their ids) are those it would return and
\* send with metrics statics that only its own queries have touched.
C40_MetricsPerSession ==
    [][act' = "other.cb_strWidth"
          => LET solo == cb_strWidth(OtherWorld(proc.alone), out'.arg, 1)
             IN  /\ out'.ret = solo.out.ret
                 /\ out'.sent = solo.out.sent]_vars
====
